---- MODULE Spec2Model ----
(***************************************************************************)
(* Simulation engine of backtest-service: the portfolio ledger with its    *)
(* fee calculators, the orderbook simulator and the order manager.         *)
(*                                                                         *)
(* Numbers.  The code computes with decimal.Decimal, which is exact on the *)
(* values used here.  The model keeps every decimal as an integer count of *)
(* a fixed unit:                                                           *)
(*   price     in thousandths of a dollar  (0.005 -> 5, 0.5 -> 500)        *)
(*   quantity  in whole contracts / shares                                 *)
(*   money     in units of 10^-7 dollar    (one cent = 100000)             *)
(* so that quantity * price and the three Polymarket fee rates are exact.  *)
(***************************************************************************)
EXTENDS Integers, Sequences, FiniteSets, TLC

VARIABLES
    current_time,     \* SimulationClock.current_time
    initial_cash,     \* the initial_cash the Portfolio was constructed with
    portfolio,        \* Portfolio: cash, positions, trades, enable_fees, total_fees_paid
    orders,           \* every SimulatedOrder object created so far, by creation index
    pending_orders,   \* OrderManager._pending_orders: creation indices, in queue order
    order_counter,    \* OrderManager._order_counter
    orderbook_cache,  \* OrderbookSimulator._orderbook_cache
    platform_of_api,  \* base_api.platform of the OrderbookSimulator
    last_call,        \* history: the most recent call, its arguments of interest and outcome
    ncalls,           \* history: number of calls made so far
    driver            \* DomeBacktestClient.run: where it stands, its equity curve, its results

vars == <<current_time, initial_cash, portfolio, orders, pending_orders,
          order_counter, orderbook_cache, platform_of_api, last_call, ncalls, driver>>

orderVars == <<orders, pending_orders, order_counter, orderbook_cache, platform_of_api>>

----------------------------------------------------------------------------
(* Bounds and input sets *)

MaxCalls == 2          \* direct Portfolio.buy / Portfolio.sell calls in one behaviour
MaxOrders == 2         \* create_order calls in one behaviour
MaxTime == 2           \* last clock value of a behaviour

\* position keys of the ledger: a Polymarket token id, and a Kalshi ticker:SIDE key
Tokens == {"P1", "K1:YES"}
PlatformOfToken(token_id) == IF token_id = "P1" THEN "polymarket" ELSE "kalshi"
Quantities == {1, 2}
LedgerPrices == {5, 500, 1000, 1500}  \* 0.005, 0.5, 1.0, and 1.5: outside [0, 1]
InitialCashChoices == {10000000}  \* $1

StartTime == 1         \* config start_time, in ticks (the run's first clock value)
Step == 1              \* config step, in ticks
OrderTokens(platform) == IF platform = "polymarket" THEN {"P1"} ELSE {"K1"}
OrderMarketTypes == {"crypto_15min"}
OrderSizes == {1, 2}

\* (platform, market_type, order_type) combinations a caller passes
CallProfiles ==
    {<<"kalshi", "global", "taker">>,
     <<"polymarket", "global", "taker">>,
     <<"polymarket", "global", "maker">>,
     <<"polymarket", "us", "taker">>,
     <<"polymarket", "us", "maker">>,
     <<"polymarket", "crypto_15min", "taker">>,
     <<"polymarket", "crypto_15min", "maker">>}

----------------------------------------------------------------------------
(* Decimal helpers *)

\* quantity * price as money: one thousandth of a dollar is 10000 money units
Value(quantity, price) == quantity * price * 10000

CeilDiv(a, b) == IF a % b = 0 THEN a \div b ELSE (a \div b) + 1

\* math.ceil(float(fee) * 100) for a fee of exactly k cents: the double nearest
\* to k/100, times 100, lands just above k for these k (IEEE-754 binary64),
\* and ceil then gives k + 1.  All such k below 200.
FloatCeilOvershoot == {7, 14, 28, 55, 56, 109, 110, 111, 112}

----------------------------------------------------------------------------
(* fees.py *)

\* mutant: the maker rebate is paid on us markets too
calculate_polymarket_fee_UsRebate(trade_value, market_type, order_type) ==
    IF market_type = "global" THEN 0
    ELSE IF order_type = "taker"
         THEN IF market_type = "us" THEN trade_value \div 10000 ELSE trade_value \div 1000
         ELSE -((trade_value \div 10000) * 5)

\* calculate_polymarket_fee(trade_value, market_type, order_type)
calculate_polymarket_fee(trade_value, market_type, order_type) ==
    IF market_type = "global" THEN 0
    ELSE IF market_type = "us"
         THEN IF order_type = "taker"
              THEN trade_value \div 10000        \* trade_value * Decimal("0.0001")
              ELSE 0
    ELSE IF market_type = "crypto_15min"
         THEN IF order_type = "taker"
              THEN trade_value \div 1000         \* trade_value * Decimal("0.001")
              ELSE -((trade_value \div 10000) * 5) \* -trade_value * Decimal("0.0005")
    ELSE 0

\* the price check of calculate_kalshi_fee: it raises ValueError outside [0, 1]
KalshiPriceRejected(contract_price) ==
    contract_price < 0 \/ contract_price > 1000

\* mutant: the (1 - P) factor is left out, fee = 0.07 * C * P
calculate_kalshi_fee_Linear(contract_count, contract_price) ==
    CeilDiv(7 * contract_count * contract_price, 1000) * 100000

\* calculate_kalshi_fee(contract_count, contract_price), for an accepted price:
\* fee = 0.07 * C * P * (1 - P); fee_cents = math.ceil(float(fee) * 100);
\* returned as fee_cents / 100
calculate_kalshi_fee(contract_count, contract_price) ==
    LET num == 7 * contract_count * contract_price * (1000 - contract_price)
        \* fee in cents is num / 10^6
        fee_cents == IF num % 1000000 = 0 /\ (num \div 1000000) \in FloatCeilOvershoot
                     THEN (num \div 1000000) + 1
                     ELSE CeilDiv(num, 1000000)
    IN  fee_cents * 100000

----------------------------------------------------------------------------
(* portfolio.py *)

EmptyPositions == [k \in {} |-> 0]

\* self.positions.get(token_id, Decimal(0))
Held(positions, token_id) ==
    IF token_id \in DOMAIN positions THEN positions[token_id] ELSE 0

\* self.positions[token_id] = quantity
SetPosition(positions, token_id, quantity) ==
    [k \in (DOMAIN positions) \cup {token_id} |->
        IF k = token_id THEN quantity ELSE positions[k]]

\* del self.positions[token_id]
DelPosition(positions, token_id) ==
    [k \in (DOMAIN positions) \ {token_id} |-> positions[k]]

Trade(timestamp, platform, token_id, side, quantity, price, fee) ==
    [timestamp |-> timestamp, platform |-> platform, token_id |-> token_id,
     side |-> side, quantity |-> quantity, price |-> price, fee |-> fee]

\* Trade.value
Trade_value(trade) == Value(trade.quantity, trade.price)

\* Trade.net_value: the trade value after fees
Trade_net_value(trade) ==
    IF trade.side = "buy" THEN Trade_value(trade) + trade.fee
    ELSE Trade_value(trade) - trade.fee

\* Portfolio.__init__
NewPortfolio(cash, enable_fees) ==
    [cash |-> cash, positions |-> EmptyPositions, trades |-> <<>>,
     enable_fees |-> enable_fees, total_fees_paid |-> 0]

\* the fee block shared by buy and sell: [raised, fee]
FeeFor(pf, platform, quantity, price, order_type, market_type) ==
    IF ~pf.enable_fees THEN [raised |-> FALSE, fee |-> 0]
    ELSE IF platform = "kalshi"
         THEN IF KalshiPriceRejected(price)
              THEN [raised |-> TRUE, fee |-> 0]
              ELSE [raised |-> FALSE, fee |-> calculate_kalshi_fee(quantity, price)]
    ELSE IF platform = "polymarket"
         THEN [raised |-> FALSE,
               fee |-> calculate_polymarket_fee(Value(quantity, price), market_type, order_type)]
    ELSE [raised |-> FALSE, fee |-> 0]

\* mutant: the trade is put at the head of the log
BuyApplied_TradeFirst(pf, platform, token_id, quantity, price, timestamp, fee) ==
    [pf EXCEPT
        !.cash = pf.cash - (Value(quantity, price) + fee),
        !.total_fees_paid = pf.total_fees_paid + fee,
        !.positions = SetPosition(pf.positions, token_id,
                                  Held(pf.positions, token_id) + quantity),
        !.trades = <<Trade(timestamp, platform, token_id, "buy", quantity, price, fee)>>
                   \o pf.trades]

\* the state changes of a successful Portfolio.buy
BuyApplied(pf, platform, token_id, quantity, price, timestamp, fee) ==
    [pf EXCEPT
        !.cash = pf.cash - (Value(quantity, price) + fee),
        !.total_fees_paid = pf.total_fees_paid + fee,
        !.positions = SetPosition(pf.positions, token_id,
                                  Held(pf.positions, token_id) + quantity),
        !.trades = Append(pf.trades,
            Trade(timestamp, platform, token_id, "buy", quantity, price, fee))]

\* mutant: a position sold down to zero stays in the map
SellApplied_KeepsZero(pf, platform, token_id, quantity, price, timestamp, fee) ==
    [pf EXCEPT
        !.cash = pf.cash + (Value(quantity, price) - fee),
        !.total_fees_paid = pf.total_fees_paid + fee,
        !.positions = SetPosition(pf.positions, token_id,
                                  Held(pf.positions, token_id) - quantity),
        !.trades = Append(pf.trades,
            Trade(timestamp, platform, token_id, "sell", quantity, price, fee))]

\* mutant: the seller is credited the gross proceeds, the fee is only recorded
SellApplied_GrossProceeds(pf, platform, token_id, quantity, price, timestamp, fee) ==
    LET held == Held(pf.positions, token_id)
    IN  [pf EXCEPT
            !.cash = pf.cash + Value(quantity, price),
            !.total_fees_paid = pf.total_fees_paid + fee,
            !.positions = IF held - quantity = 0
                          THEN DelPosition(pf.positions, token_id)
                          ELSE SetPosition(pf.positions, token_id, held - quantity),
            !.trades = Append(pf.trades,
                Trade(timestamp, platform, token_id, "sell", quantity, price, fee))]

\* the state changes of a successful Portfolio.sell
SellApplied(pf, platform, token_id, quantity, price, timestamp, fee) ==
    LET held == Held(pf.positions, token_id)
    IN  [pf EXCEPT
            !.cash = pf.cash + (Value(quantity, price) - fee),
            !.total_fees_paid = pf.total_fees_paid + fee,
            !.positions = IF held - quantity = 0
                          THEN DelPosition(pf.positions, token_id)
                          ELSE SetPosition(pf.positions, token_id, held - quantity),
            !.trades = Append(pf.trades,
                Trade(timestamp, platform, token_id, "sell", quantity, price, fee))]

\* mutant: the funds check comes after the ledger has been updated
PortfolioBuy_CheckAfterUpdate(pf, platform, token_id, quantity, price, timestamp, order_type, market_type) ==
    LET f == FeeFor(pf, platform, quantity, price, order_type, market_type)
    IN  IF f.raised THEN [raised |-> TRUE, pf |-> pf]
        ELSE [raised |-> Value(quantity, price) + f.fee > pf.cash,
              pf |-> BuyApplied(pf, platform, token_id, quantity, price, timestamp, f.fee)]

\* Portfolio.buy: [raised |-> whether ValueError was raised, pf |-> the portfolio after]
PortfolioBuy(pf, platform, token_id, quantity, price, timestamp, order_type, market_type) ==
    LET cost == Value(quantity, price)
        f == FeeFor(pf, platform, quantity, price, order_type, market_type)
        total_cost == cost + f.fee
    IN  IF f.raised \/ total_cost > pf.cash
        THEN [raised |-> TRUE, pf |-> pf]
        ELSE [raised |-> FALSE,
              pf |-> BuyApplied(pf, platform, token_id, quantity, price, timestamp, f.fee)]

\* mutant: no check of the held quantity
PortfolioSell_NoPositionCheck(pf, platform, token_id, quantity, price, timestamp, order_type, market_type) ==
    LET f == FeeFor(pf, platform, quantity, price, order_type, market_type)
    IN  IF f.raised THEN [raised |-> TRUE, pf |-> pf]
        ELSE [raised |-> FALSE,
              pf |-> SellApplied(pf, platform, token_id, quantity, price, timestamp, f.fee)]

\* mutant: the fee of a sell is not added to total_fees_paid
PortfolioSell_FeeNotAccumulated(pf, platform, token_id, quantity, price, timestamp, order_type, market_type) ==
    LET f == FeeFor(pf, platform, quantity, price, order_type, market_type)
    IN  IF quantity > Held(pf.positions, token_id) \/ f.raised
        THEN [raised |-> TRUE, pf |-> pf]
        ELSE [raised |-> FALSE,
              pf |-> [SellApplied(pf, platform, token_id, quantity, price, timestamp, f.fee)
                          EXCEPT !.total_fees_paid = pf.total_fees_paid]]

\* Portfolio.sell
PortfolioSell(pf, platform, token_id, quantity, price, timestamp, order_type, market_type) ==
    LET held == Held(pf.positions, token_id)
        f == FeeFor(pf, platform, quantity, price, order_type, market_type)
    IN  IF quantity > held \/ f.raised
        THEN [raised |-> TRUE, pf |-> pf]
        ELSE [raised |-> FALSE,
              pf |-> SellApplied(pf, platform, token_id, quantity, price, timestamp, f.fee)]

\* history record of one Portfolio.buy / Portfolio.sell call
LedgerCall(op, platform, token_id, quantity, price, order_type, market_type, raised) ==
    [op |-> op, platform |-> platform, token_id |-> token_id, quantity |-> quantity,
     price |-> price, order_type |-> order_type, market_type |-> market_type,
     raised |-> raised]

NoCall == [op |-> "none", raised |-> FALSE]

\* the driver before its first run: no run begun, no equity point, no result;
\* invoked is history: the clock values at which this run called the strategy
IdleDriver ==
    [pc |-> "idle", run |-> 0, equity_curve |-> <<>>, results |-> <<>>, invoked |-> <<>>]

----------------------------------------------------------------------------
(* emulo/simulation/portfolio.py: the ledger that also keeps, per instrument, *)
(* a Position with its average entry price and its cost basis.  Its buy and   *)
(* sell are those of the ledger above followed by the Position bookkeeping.   *)
(*                                                                            *)
(* avg_price and cost_basis come out of Decimal divisions; the model keeps    *)
(* them as fractions <<numerator, denominator>> in lowest terms (avg_price in *)
(* thousandths of a dollar, cost_basis in money units), which is the value    *)
(* Decimal holds up to its 28 significant digits.                             *)

RECURSIVE GCD(_, _)
GCD(a, b) == IF b = 0 THEN a ELSE GCD(b, a % b)

\* the fraction n / d (n >= 0, d > 0) in lowest terms
Frac(n, d) == LET g == GCD(n, d) IN <<n \div g, d \div g>>

\* x * (a / b), reducing across before multiplying
FracScale(x, a, b) ==
    LET g1 == GCD(x[1], b)
        g2 == GCD(a, x[2])
    IN  Frac((x[1] \div g1) * (a \div g2), (x[2] \div g2) * (b \div g1))

FracAdd(x, y) ==
    LET l == (x[2] \div GCD(x[2], y[2])) * y[2]
    IN  Frac(x[1] * (l \div x[2]) + y[1] * (l \div y[2]), l)

\* x - y, for y <= x
FracSub(x, y) ==
    LET l == (x[2] \div GCD(x[2], y[2])) * y[2]
    IN  Frac(x[1] * (l \div x[2]) - y[1] * (l \div y[2]), l)

\* dataclass Position
Position(token_id, quantity, avg_price, cost_basis, platform) ==
    [token_id |-> token_id, quantity |-> quantity, avg_price |-> avg_price,
     cost_basis |-> cost_basis, platform |-> platform]

\* InterestAccrual.__init__: apy is the default 0.04, min_balance in whole dollars
NewInterestAccrual(min_balance, enabled) ==
    [min_balance |-> min_balance, enabled |-> enabled, accrued_interest |-> 0,
     last_accrual_date |-> <<>>, total_interest_paid |-> 0]

\* Portfolio.__init__ of emulo: interest_accrual is None (<<>>) or <<an InterestAccrual>>
NewEmuloPortfolio(cash, enable_fees, interest_accrual) ==
    [cash |-> cash, positions |-> EmptyPositions, position_details |-> EmptyPositions,
     trades |-> <<>>, enable_fees |-> enable_fees, total_fees_paid |-> 0,
     enable_interest |-> (interest_accrual # <<>>), interest_accrual |-> interest_accrual]

\* the _position_details block of buy
BuyDetails(details, platform, token_id, quantity, price, total_cost) ==
    IF token_id \in DOMAIN details
    THEN LET pos == details[token_id]
             old_value == FracScale(pos.avg_price, pos.quantity, 1)
             new_value == Frac(quantity * price, 1)
             total_quantity == pos.quantity + quantity
         IN  SetPosition(details, token_id,
                 [pos EXCEPT
                     !.avg_price = FracScale(FracAdd(old_value, new_value), 1, total_quantity),
                     !.cost_basis = FracAdd(pos.cost_basis, Frac(total_cost, 1)),
                     !.quantity = total_quantity])
    ELSE SetPosition(details, token_id,
             Position(token_id, quantity, Frac(price, 1), Frac(total_cost, 1), platform))

\* mutant: a sell re-prices what is left of the position at the sale price
SellDetails_Reprices(details, token_id, quantity, price) ==
    IF token_id \in DOMAIN details
    THEN LET pos == details[token_id]
         IN  IF pos.quantity - quantity <= 0
             THEN DelPosition(details, token_id)
             ELSE SetPosition(details, token_id,
                      [pos EXCEPT
                          !.avg_price = Frac(price, 1),
                          !.cost_basis = FracSub(pos.cost_basis,
                                            FracScale(pos.cost_basis, quantity, pos.quantity)),
                          !.quantity = pos.quantity - quantity])
    ELSE details

\* the _position_details block of sell (price is not used by it)
SellDetails(details, token_id, quantity, price) ==
    IF token_id \in DOMAIN details
    THEN LET pos == details[token_id]
         IN  IF pos.quantity > 0
             THEN LET cost_basis_sold == FracScale(pos.cost_basis, quantity, pos.quantity)
                  IN  IF pos.quantity - quantity <= 0
                      THEN DelPosition(details, token_id)
                      ELSE SetPosition(details, token_id,
                               [pos EXCEPT
                                   !.cost_basis = FracSub(pos.cost_basis, cost_basis_sold),
                                   !.quantity = pos.quantity - quantity])
             ELSE DelPosition(details, token_id)
    ELSE details

\* Portfolio.buy of emulo
EmuloBuy(pf, platform, token_id, quantity, price, timestamp, order_type, market_type) ==
    LET cost == Value(quantity, price)
        f == FeeFor(pf, platform, quantity, price, order_type, market_type)
        total_cost == cost + f.fee
    IN  IF f.raised \/ total_cost > pf.cash
        THEN [raised |-> TRUE, pf |-> pf]
        ELSE [raised |-> FALSE,
              pf |-> [BuyApplied(pf, platform, token_id, quantity, price, timestamp, f.fee)
                         EXCEPT !.position_details =
                             BuyDetails(pf.position_details, platform, token_id,
                                        quantity, price, total_cost)]]

\* Portfolio.sell of emulo
EmuloSell(pf, platform, token_id, quantity, price, timestamp, order_type, market_type) ==
    LET held == Held(pf.positions, token_id)
        f == FeeFor(pf, platform, quantity, price, order_type, market_type)
    IN  IF quantity > held \/ f.raised
        THEN [raised |-> TRUE, pf |-> pf]
        ELSE [raised |-> FALSE,
              pf |-> [SellApplied(pf, platform, token_id, quantity, price, timestamp, f.fee)
                         EXCEPT !.position_details =
                             SellDetails(pf.position_details, token_id, quantity, price)]]

\* InterestAccrual.calculate_daily_interest: daily_rate is apy / 365 = 0.04 / 365,
\* that is 1 / 9125; the product is kept to the money unit
calculate_daily_interest(ia, cash_balance, positions_value) ==
    IF ~ia.enabled THEN 0
    ELSE LET net_value == cash_balance + positions_value
         IN  IF (net_value \div 10000000) < ia.min_balance   \* net_value < min_balance
             THEN 0
             ELSE net_value \div 9125

\* InterestAccrual.accrue_interest: [returned, ia]
accrue_interest(ia, cash_balance, positions_value, current_timestamp) ==
    LET daily_interest == calculate_daily_interest(ia, cash_balance, positions_value)
    IN  [returned |-> daily_interest,
         ia |-> [ia EXCEPT !.accrued_interest = @ + daily_interest,
                           !.last_accrual_date = <<current_timestamp>>]]

\* InterestAccrual.apply_monthly_interest: [returned, ia]
apply_monthly_interest(ia) ==
    [returned |-> ia.accrued_interest,
     ia |-> [ia EXCEPT !.total_interest_paid = @ + ia.accrued_interest,
                       !.accrued_interest = 0]]

----------------------------------------------------------------------------
(* Optional values: None is the empty sequence, a present value v is <<v>> *)

None == <<>>
Some(v) == <<v>>
IsNone(o) == o = <<>>
Val(o) == o[1]

\* str.upper() / str.lower() on the side strings in use
Upper(side) ==
    CASE side = "buy" -> "BUY" [] side = "sell" -> "SELL"
      [] side = "yes" -> "YES" [] side = "no" -> "NO"
      [] OTHER -> side

Lower(side) ==
    CASE side = "BUY" -> "buy" [] side = "SELL" -> "sell"
      [] side = "YES" -> "yes" [] side = "NO" -> "no"
      [] OTHER -> side

----------------------------------------------------------------------------
(* orderbook.py *)

\* A price level is <<price, qty>>.  A parsed orderbook is the dict the parser
\* returns; keys a platform's parser does not set read as the empty list, which
\* is what orderbook.get(key, []) gives.  snapshot_ts is a history field: the
\* timestamp (ms) of the snapshot the dict was parsed from.
Orderbook(bids, asks, yes_bids, no_bids, snapshot_ts) ==
    [bids |-> bids, asks |-> asks, yes_bids |-> yes_bids, no_bids |-> no_bids,
     snapshot_ts |-> snapshot_ts]

\* OrderbookSimulator._parse_polymarket_orderbook
parse_polymarket_orderbook(snapshot) ==
    Orderbook(snapshot.bids, snapshot.asks, <<>>, <<>>, snapshot.timestamp)

\* Decimal(str(b[0])) / Decimal(100): cents to thousandths of a dollar
CentsLevels(levels) ==
    [i \in 1..Len(levels) |-> <<levels[i][1] * 10, levels[i][2]>>]

\* OrderbookSimulator._parse_kalshi_orderbook
parse_kalshi_orderbook(snapshot) ==
    LET yes_bids == CentsLevels(snapshot.yes)
        no_bids == CentsLevels(snapshot.no)
    IN  Orderbook(yes_bids \o no_bids, <<>>, yes_bids, no_bids, snapshot.timestamp)

\* mutant: the cache key leaves out the timestamp
CacheKey_TokenOnly(token_id, timestamp) == token_id

\* cache_key = f"{token_id}:{timestamp}"
CacheKey(token_id, timestamp) == token_id \o ":" \o ToString(timestamp)

EmptyCache == [k \in {} |-> 0]

\* mutant: the first snapshot with a timestamp is taken, whatever its time
RECURSIVE FirstAccepted_NoTimeFilter(_, _, _)
FirstAccepted_NoTimeFilter(snapshots, timestamp, i) ==
    IF i > Len(snapshots) THEN 0
    ELSE IF snapshots[i].timestamp # 0 THEN i
    ELSE FirstAccepted_NoTimeFilter(snapshots, timestamp, i + 1)

\* the first snapshot of the response that passes
\* `snapshot_ts_ms and snapshot_ts_ms <= timestamp * 1000`, as an index; 0 if none
RECURSIVE FirstAccepted(_, _, _)
FirstAccepted(snapshots, timestamp, i) ==
    IF i > Len(snapshots) THEN 0
    ELSE IF snapshots[i].timestamp # 0 /\ snapshots[i].timestamp <= timestamp * 1000
         THEN i
         ELSE FirstAccepted(snapshots, timestamp, i + 1)

\* mutant: a cached orderbook is served once and then dropped from the cache
get_historical_orderbook_ServesOnce(cache, api_platform, token_id, timestamp, response) ==
    LET cache_key == CacheKey(token_id, timestamp)
    IN  IF cache_key \in DOMAIN cache
        THEN [ob |-> Some(cache[cache_key]),
              cache |-> [k \in (DOMAIN cache) \ {cache_key} |-> cache[k]],
              fetched |-> FALSE]
        ELSE IF response.raised \/ api_platform \notin {"polymarket", "kalshi"}
        THEN [ob |-> None, cache |-> cache, fetched |-> TRUE]
        ELSE LET i == FirstAccepted(response.snapshots, timestamp, 1)
             IN  IF i = 0
                 THEN [ob |-> None, cache |-> cache, fetched |-> TRUE]
                 ELSE LET ob == IF api_platform = "polymarket"
                                THEN parse_polymarket_orderbook(response.snapshots[i])
                                ELSE parse_kalshi_orderbook(response.snapshots[i])
                      IN  [ob |-> Some(ob),
                           cache |-> [k \in (DOMAIN cache) \cup {cache_key} |->
                                         IF k = cache_key THEN ob ELSE cache[k]],
                           fetched |-> TRUE]

\* OrderbookSimulator.get_historical_orderbook(token_id, timestamp) with use_cache = True.
\* response is what the collaborator's get_orderbooks does when it is called:
\* [raised |-> TRUE] or [raised |-> FALSE, snapshots |-> <<...>>].
\* Result: [ob |-> None or Some(orderbook), cache |-> the cache after, fetched |-> BOOLEAN]
get_historical_orderbook(cache, api_platform, token_id, timestamp, response) ==
    LET cache_key == CacheKey(token_id, timestamp)
    IN  IF cache_key \in DOMAIN cache
        THEN [ob |-> Some(cache[cache_key]), cache |-> cache, fetched |-> FALSE]
        ELSE IF response.raised \/ api_platform \notin {"polymarket", "kalshi"}
        THEN [ob |-> None, cache |-> cache, fetched |-> TRUE]
        ELSE LET i == FirstAccepted(response.snapshots, timestamp, 1)
             IN  IF i = 0
                 THEN [ob |-> None, cache |-> cache, fetched |-> TRUE]
                 ELSE LET ob == IF api_platform = "polymarket"
                                THEN parse_polymarket_orderbook(response.snapshots[i])
                                ELSE parse_kalshi_orderbook(response.snapshots[i])
                      IN  [ob |-> Some(ob),
                           cache |-> [k \in (DOMAIN cache) \cup {cache_key} |->
                                         IF k = cache_key THEN ob ELSE cache[k]],
                           fetched |-> TRUE]

\* sum(qty for price, qty in levels if price <= limit)
RECURSIVE SumAtOrBelow(_, _)
SumAtOrBelow(levels, limit) ==
    IF levels = <<>> THEN 0
    ELSE (IF Head(levels)[1] <= limit THEN Head(levels)[2] ELSE 0)
         + SumAtOrBelow(Tail(levels), limit)

\* sum(qty for price, qty in levels if price >= limit)
RECURSIVE SumAtOrAbove(_, _)
SumAtOrAbove(levels, limit) ==
    IF levels = <<>> THEN 0
    ELSE (IF Head(levels)[1] >= limit THEN Head(levels)[2] ELSE 0)
         + SumAtOrAbove(Tail(levels), limit)

\* sum(qty for p, qty in levels if (Decimal(1) - p) <= limit)
RECURSIVE SumConvertedAtOrBelow(_, _)
SumConvertedAtOrBelow(levels, limit) ==
    IF levels = <<>> THEN 0
    ELSE (IF 1000 - Head(levels)[1] <= limit THEN Head(levels)[2] ELSE 0)
         + SumConvertedAtOrBelow(Tail(levels), limit)

\* mutant: every level of the contra side counts, whatever its price
can_fill_at_price_IgnoresLimit(orderbook, side, limit_price, size, platform) ==
    IF IsNone(orderbook) THEN FALSE
    ELSE LET ob == Val(orderbook)
             side_upper == Upper(side)
         IN  IF platform = "polymarket"
             THEN IF side_upper \in {"YES", "BUY"}
                  THEN SumAtOrBelow(ob.asks, 1000) >= size
                  ELSE SumAtOrAbove(ob.bids, 0) >= size
             ELSE IF platform = "kalshi"
             THEN IF side_upper \in {"YES", "yes"}
                  THEN SumConvertedAtOrBelow(ob.no_bids, 1000) >= size
                  ELSE SumConvertedAtOrBelow(ob.yes_bids, 1000) >= size
             ELSE FALSE

\* OrderbookSimulator.can_fill_at_price(orderbook, side, limit_price, size, platform);
\* orderbook is None or Some(parsed orderbook)
can_fill_at_price(orderbook, side, limit_price, size, platform) ==
    IF IsNone(orderbook) THEN FALSE
    ELSE LET ob == Val(orderbook)
             side_upper == Upper(side)
         IN  IF platform = "polymarket"
             THEN IF side_upper \in {"YES", "BUY"}
                  THEN SumAtOrBelow(ob.asks, limit_price) >= size
                  ELSE SumAtOrAbove(ob.bids, limit_price) >= size
             ELSE IF platform = "kalshi"
             THEN IF side_upper \in {"YES", "yes"}
                  THEN SumConvertedAtOrBelow(ob.no_bids, limit_price) >= size
                  ELSE SumConvertedAtOrBelow(ob.yes_bids, limit_price) >= size
             ELSE FALSE

\* mutant: without an orderbook a default mid price is quoted
get_market_price_Default(orderbook, side, platform) ==
    IF IsNone(orderbook) THEN Some(500)
    ELSE LET ob == Val(orderbook)
             side_upper == Upper(side)
         IN  IF platform = "polymarket"
             THEN IF side_upper \in {"YES", "BUY"}
                  THEN IF ob.asks # <<>> THEN Some(ob.asks[1][1]) ELSE None
                  ELSE IF ob.bids # <<>> THEN Some(ob.bids[1][1]) ELSE None
             ELSE IF platform = "kalshi"
             THEN IF side_upper \in {"YES", "yes"}
                  THEN IF ob.no_bids # <<>> THEN Some(1000 - ob.no_bids[1][1]) ELSE None
                  ELSE IF ob.yes_bids # <<>> THEN Some(1000 - ob.yes_bids[1][1]) ELSE None
             ELSE None

\* OrderbookSimulator.get_market_price(orderbook, side, platform): None or Some(price)
get_market_price(orderbook, side, platform) ==
    IF IsNone(orderbook) THEN None
    ELSE LET ob == Val(orderbook)
             side_upper == Upper(side)
         IN  IF platform = "polymarket"
             THEN IF side_upper \in {"YES", "BUY"}
                  THEN IF ob.asks # <<>> THEN Some(ob.asks[1][1]) ELSE None
                  ELSE IF ob.bids # <<>> THEN Some(ob.bids[1][1]) ELSE None
             ELSE IF platform = "kalshi"
             THEN IF side_upper \in {"YES", "yes"}
                  THEN IF ob.no_bids # <<>> THEN Some(1000 - ob.no_bids[1][1]) ELSE None
                  ELSE IF ob.yes_bids # <<>> THEN Some(1000 - ob.yes_bids[1][1]) ELSE None
             ELSE None

----------------------------------------------------------------------------
(* orders.py *)

\* SimulatedOrder as create_order constructs it
SimulatedOrder(order_id, token_id, side, size, limit_price, order_type, created_time, expiration_time, client_order_id, platform, market_type) ==
    [order_id |-> order_id, token_id |-> token_id, side |-> side, size |-> size,
     limit_price |-> limit_price, order_type |-> order_type, status |-> "pending",
     filled_size |-> 0, fill_price |-> None, created_time |-> created_time,
     expiration_time |-> expiration_time, client_order_id |-> client_order_id,
     platform |-> platform, market_type |-> market_type, was_pending |-> FALSE]

\* OrderManager._generate_order_id, for the counter value after the increment
generate_order_id(time, counter) ==
    "order_" \o ToString(time) \o "_" \o ToString(counter)

\* mutant: every fill is charged as a taker
order_type_for_fees_AlwaysTaker(order) == "taker"

\* the maker/taker decision of _execute_fill
order_type_for_fees(order) ==
    IF order.order_type = "MARKET" \/ IsNone(order.limit_price) THEN "taker"
    ELSE IF order.was_pending THEN "maker"
    ELSE "taker"

\* position_key of _execute_fill
position_key(order, platform) ==
    IF platform = "kalshi" THEN order.token_id \o ":" \o Upper(order.side)
    ELSE order.token_id

\* mutant: the order is marked filled even when the ledger refused the trade
execute_fill_FilledOnRefusal(order, fill_size, fill_price, platform, pf, now) ==
    LET is_buy == Lower(order.side) \in {"yes", "buy"}
        key == position_key(order, platform)
        fee_class == order_type_for_fees(order)
        r == IF is_buy
             THEN PortfolioBuy(pf, platform, key, fill_size, fill_price, now,
                               fee_class, order.market_type)
             ELSE PortfolioSell(pf, platform, key, fill_size, fill_price, now,
                                fee_class, order.market_type)
        call == LedgerCall(IF is_buy THEN "buy" ELSE "sell", platform, key, fill_size,
                           fill_price, fee_class, order.market_type, r.raised)
    IN  [order |-> [order EXCEPT !.filled_size = fill_size,
                                 !.fill_price = Some(fill_price),
                                 !.status = IF fill_size = order.size
                                            THEN "filled" ELSE "partially_filled"],
         pf |-> r.pf,
         calls |-> <<call>>]

\* OrderManager._execute_fill(order, fill_size, fill_price, platform) at clock time now:
\* [order |-> the order after, pf |-> the portfolio after, calls |-> the ledger call made]
execute_fill(order, fill_size, fill_price, platform, pf, now) ==
    LET is_buy == Lower(order.side) \in {"yes", "buy"}
        key == position_key(order, platform)
        fee_class == order_type_for_fees(order)
        r == IF is_buy
             THEN PortfolioBuy(pf, platform, key, fill_size, fill_price, now,
                               fee_class, order.market_type)
             ELSE PortfolioSell(pf, platform, key, fill_size, fill_price, now,
                                fee_class, order.market_type)
        call == LedgerCall(IF is_buy THEN "buy" ELSE "sell", platform, key, fill_size,
                           fill_price, fee_class, order.market_type, r.raised)
    IN  [order |-> IF r.raised
                   THEN [order EXCEPT !.status = "rejected", !.fill_price = None,
                                      !.filled_size = 0]
                   ELSE [order EXCEPT !.filled_size = fill_size,
                                      !.fill_price = Some(fill_price),
                                      !.status = IF fill_size = order.size
                                                 THEN "filled" ELSE "partially_filled"],
         pf |-> r.pf,
         calls |-> <<call>>]

\* mutant: a GTC / GTD limit order fills whenever an orderbook exists
try_fill_order_Eager(order, platform, orderbook, pf, now) ==
    IF order.order_type = "MARKET" \/ IsNone(order.limit_price)
    THEN LET fill_price == get_market_price(orderbook, order.side, platform)
         IN  IF IsNone(fill_price)
             THEN [order |-> [order EXCEPT !.status = "rejected"], pf |-> pf, calls |-> <<>>]
             ELSE execute_fill(order, order.size, Val(fill_price), platform, pf, now)
    ELSE IF order.order_type = "FOK"
         THEN IF can_fill_at_price(orderbook, order.side, Val(order.limit_price),
                                   order.size, platform)
              THEN execute_fill(order, order.size, Val(order.limit_price), platform, pf, now)
              ELSE [order |-> [order EXCEPT !.status = "rejected"], pf |-> pf, calls |-> <<>>]
    ELSE IF order.order_type \in {"GTC", "GTD"}
         THEN IF ~IsNone(orderbook)
              THEN execute_fill(order, order.size, Val(order.limit_price), platform, pf, now)
              ELSE [order |-> [order EXCEPT !.status = "pending"], pf |-> pf, calls |-> <<>>]
    ELSE [order |-> [order EXCEPT !.status = "rejected"], pf |-> pf, calls |-> <<>>]

\* mutant: a GTC / GTD order that cannot fill in full takes the one contract
\* that is there
try_fill_order_TakesAvailable(order, platform, orderbook, pf, now) ==
    IF order.order_type = "MARKET" \/ IsNone(order.limit_price)
    THEN LET fill_price == get_market_price(orderbook, order.side, platform)
         IN  IF IsNone(fill_price)
             THEN [order |-> [order EXCEPT !.status = "rejected"], pf |-> pf, calls |-> <<>>]
             ELSE execute_fill(order, order.size, Val(fill_price), platform, pf, now)
    ELSE LET can_fill == can_fill_at_price(orderbook, order.side, Val(order.limit_price),
                                           order.size, platform)
         IN  IF order.order_type = "FOK"
             THEN IF can_fill
                  THEN execute_fill(order, order.size, Val(order.limit_price), platform, pf, now)
                  ELSE [order |-> [order EXCEPT !.status = "rejected"], pf |-> pf,
                        calls |-> <<>>]
             ELSE IF order.order_type \in {"GTC", "GTD"}
             THEN IF can_fill
                  THEN execute_fill(order, order.size, Val(order.limit_price), platform, pf, now)
                  ELSE IF can_fill_at_price(orderbook, order.side, Val(order.limit_price),
                                            1, platform)
                  THEN execute_fill(order, 1, Val(order.limit_price), platform, pf, now)
                  ELSE [order |-> [order EXCEPT !.status = "pending"], pf |-> pf,
                        calls |-> <<>>]
             ELSE [order |-> [order EXCEPT !.status = "rejected"], pf |-> pf, calls |-> <<>>]

\* mutant: a LIMIT order is matched like a GTC order
try_fill_order_LimitAsGtc(order, platform, orderbook, pf, now) ==
    IF order.order_type = "MARKET" \/ IsNone(order.limit_price)
    THEN LET fill_price == get_market_price(orderbook, order.side, platform)
         IN  IF IsNone(fill_price)
             THEN [order |-> [order EXCEPT !.status = "rejected"], pf |-> pf, calls |-> <<>>]
             ELSE execute_fill(order, order.size, Val(fill_price), platform, pf, now)
    ELSE LET can_fill == can_fill_at_price(orderbook, order.side, Val(order.limit_price),
                                           order.size, platform)
         IN  IF order.order_type = "FOK"
             THEN IF can_fill
                  THEN execute_fill(order, order.size, Val(order.limit_price), platform, pf, now)
                  ELSE [order |-> [order EXCEPT !.status = "rejected"], pf |-> pf,
                        calls |-> <<>>]
             ELSE IF order.order_type \in {"GTC", "GTD", "LIMIT"}
             THEN IF can_fill
                  THEN execute_fill(order, order.size, Val(order.limit_price), platform, pf, now)
                  ELSE [order |-> [order EXCEPT !.status = "pending"], pf |-> pf,
                        calls |-> <<>>]
             ELSE [order |-> [order EXCEPT !.status = "rejected"], pf |-> pf, calls |-> <<>>]

\* OrderManager._try_fill_order(order, platform), given the orderbook that
\* get_historical_orderbook(order.token_id, clock.current_time) returned
try_fill_order(order, platform, orderbook, pf, now) ==
    IF order.order_type = "MARKET" \/ IsNone(order.limit_price)
    THEN LET fill_price == get_market_price(orderbook, order.side, platform)
         IN  IF IsNone(fill_price)
             THEN [order |-> [order EXCEPT !.status = "rejected"], pf |-> pf, calls |-> <<>>]
             ELSE execute_fill(order, order.size, Val(fill_price), platform, pf, now)
    ELSE LET can_fill == can_fill_at_price(orderbook, order.side, Val(order.limit_price),
                                           order.size, platform)
         IN  IF order.order_type = "FOK"
             THEN IF can_fill
                  THEN execute_fill(order, order.size, Val(order.limit_price), platform, pf, now)
                  ELSE [order |-> [order EXCEPT !.status = "rejected"], pf |-> pf,
                        calls |-> <<>>]
             ELSE IF order.order_type \in {"GTC", "GTD"}
             THEN IF can_fill
                  THEN execute_fill(order, order.size, Val(order.limit_price), platform, pf, now)
                  ELSE [order |-> [order EXCEPT !.status = "pending"], pf |-> pf,
                        calls |-> <<>>]
             ELSE [order |-> [order EXCEPT !.status = "rejected"], pf |-> pf, calls |-> <<>>]

\* the timestamp _try_fill_order passes to get_historical_orderbook
match_time(order, now) == now

ValidOrderTypes == {"MARKET", "LIMIT", "FOK", "GTC", "GTD"}

\* the two validations of create_order: TRUE when it raises ValueError
create_order_raises(order_type, expiration_time_seconds) ==
    \/ order_type \notin ValidOrderTypes
    \/ order_type = "GTD" /\ IsNone(expiration_time_seconds)

\* mutant: every GTC / GTD limit order that was not filled is queued
rests_on_book_Unfilled(result, order_type, limit_price) ==
    /\ result.status # "filled"
    /\ order_type \in {"GTC", "GTD"}
    /\ ~IsNone(limit_price)

\* the queueing decision of create_order on the result of the first fill attempt
rests_on_book(result, order_type, limit_price) ==
    /\ result.status = "pending"
    /\ order_type \in {"GTC", "GTD"}
    /\ ~IsNone(limit_price)

\* the expiration check of process_pending_orders
is_expired(order, now) ==
    /\ order.order_type = "GTD"
    /\ ~IsNone(order.expiration_time) /\ Val(order.expiration_time) # 0
    /\ now > Val(order.expiration_time)

\* mutant: every order that was not filled goes back into the queue
stays_queued_UnlessFilled(result, resized) == result.status # "filled"

\* the queueing decision of process_pending_orders on the result of a retry:
\* resized is the order with the filled part taken off its size
stays_queued(result, resized) ==
    \/ result.status = "pending"
    \/ result.status = "partially_filled" /\ resized.size > 0

\* The loop of process_pending_orders over queue[i..], threading
\* st = [orders, pf, cache, remaining, calls].  Each order that is not expired
\* asks get_historical_orderbook again; when that call has to fetch, the
\* collaborator answers with any response of the set responses.  The result
\* is the set of states the loop can end in.
RECURSIVE process_loop(_, _, _, _, _, _, _)
process_loop(queue, i, st, platform, api_platform, now, responses) ==
    IF i > Len(queue) THEN {st}
    ELSE
      LET idx == queue[i]
          order == st.orders[idx]
      IN  IF is_expired(order, now)
          THEN process_loop(queue, i + 1,
                   [st EXCEPT !.orders[idx].status = "expired"],
                   platform, api_platform, now, responses)
          ELSE
            LET at == match_time(order, now)
                answers == IF CacheKey(order.token_id, at) \in DOMAIN st.cache
                           THEN {CHOOSE x \in responses : TRUE}  \* not consulted
                           ELSE responses
                after(response) ==
                    LET g == get_historical_orderbook(st.cache, api_platform,
                                                      order.token_id, at, response)
                        r == try_fill_order(order, platform, g.ob, st.pf, now)
                        resized == IF r.order.status = "partially_filled"
                                   THEN [r.order EXCEPT
                                            !.size = r.order.size - r.order.filled_size]
                                   ELSE r.order
                        keep == stays_queued(r.order, resized)
                    IN  [orders |-> [st.orders EXCEPT ![idx] = resized],
                         pf |-> r.pf,
                         cache |-> g.cache,
                         remaining |-> IF keep THEN Append(st.remaining, idx)
                                       ELSE st.remaining,
                         calls |-> st.calls \o r.calls]
            IN  UNION {process_loop(queue, i + 1, after(response), platform,
                                    api_platform, now, responses) : response \in answers}

\* mutant: the head of the queue is taken, whatever its order_id
find_order_Head(queue, ords, order_id, i) == IF queue = <<>> THEN 0 ELSE 1

\* index in the queue of the first order with this order_id; 0 if none
RECURSIVE find_order(_, _, _, _)
find_order(queue, ords, order_id, i) ==
    IF i > Len(queue) THEN 0
    ELSE IF ords[queue[i]].order_id = order_id THEN i
    ELSE find_order(queue, ords, order_id, i + 1)

\* mutant: the order is not removed from the queue
Pop_Keep(queue, i) == queue

\* list.pop(i)
Pop(queue, i) == SubSeq(queue, 1, i - 1) \o SubSeq(queue, i + 1, Len(queue))

----------------------------------------------------------------------------
(* The ledger driven directly: a strategy calling Portfolio.buy / sell *)


InitLedger ==
    /\ current_time = 0
    /\ initial_cash \in InitialCashChoices
    /\ \E ef \in BOOLEAN : portfolio = NewPortfolio(initial_cash, ef)
    /\ orders = <<>>
    /\ pending_orders = <<>>
    /\ order_counter = 0
    /\ orderbook_cache = EmptyCache
    /\ platform_of_api = "polymarket"
    /\ last_call = NoCall
    /\ ncalls = 0
    /\ driver = IdleDriver

Buy ==
    /\ ncalls < MaxCalls
    /\ \E token_id \in Tokens, quantity \in Quantities, price \in LedgerPrices :
       \E prof \in {c \in CallProfiles : c[1] = PlatformOfToken(token_id)} :
          LET r == PortfolioBuy(portfolio, prof[1], token_id, quantity, price,
                                current_time, prof[3], prof[2])
          IN  /\ portfolio' = r.pf
              /\ last_call' = LedgerCall("buy", prof[1], token_id, quantity, price,
                                          prof[3], prof[2], r.raised)
    /\ ncalls' = ncalls + 1
    /\ UNCHANGED <<current_time, initial_cash, orderVars, driver>>

Sell ==
    /\ ncalls < MaxCalls
    /\ \E token_id \in Tokens, quantity \in Quantities, price \in LedgerPrices :
       \E prof \in {c \in CallProfiles : c[1] = PlatformOfToken(token_id)} :
          LET r == PortfolioSell(portfolio, prof[1], token_id, quantity, price,
                                 current_time, prof[3], prof[2])
          IN  /\ portfolio' = r.pf
              /\ last_call' = LedgerCall("sell", prof[1], token_id, quantity, price,
                                          prof[3], prof[2], r.raised)
    /\ ncalls' = ncalls + 1
    /\ UNCHANGED <<current_time, initial_cash, orderVars, driver>>

NextLedger == Buy \/ Sell

SpecLedger == InitLedger /\ [][NextLedger]_vars

----------------------------------------------------------------------------
(* The collaborator: what get_orderbooks may answer *)

\* snapshot timestamps in ms: one at the start of the run and one after its end
SnapshotTimes == {1000 * StartTime, 1000 * (MaxTime + 1)}

\* Polymarket snapshots: bids and asks as [[price, size], ...]
PolymarketBooks ==
    {[bids |-> <<<<600, 1>>, <<500, 1>>, <<300, 1>>>>,
      asks |-> <<<<400, 1>>, <<500, 1>>, <<700, 1>>>>],
     [bids |-> <<>>, asks |-> <<<<400, 1>>>>]}

\* Kalshi snapshots: orderbook.yes and orderbook.no as [[price_cents, count], ...]
KalshiBooks ==
    {[yes |-> <<<<60, 1>>, <<50, 1>>, <<30, 1>>>>,
      no |-> <<<<60, 1>>, <<50, 1>>, <<30, 1>>>>],
     [yes |-> <<>>, no |-> <<<<60, 1>>>>]}

Snapshots(platform) ==
    IF platform = "polymarket"
    THEN {[timestamp |-> ts, bids |-> b.bids, asks |-> b.asks] :
              ts \in SnapshotTimes, b \in PolymarketBooks}
    ELSE {[timestamp |-> ts, yes |-> b.yes, no |-> b.no] :
              ts \in SnapshotTimes, b \in KalshiBooks}

\* the fetch raises, returns no snapshot, or returns one snapshot (limit = 1)
Responses(platform) ==
    {[raised |-> TRUE, snapshots |-> <<>>], [raised |-> FALSE, snapshots |-> <<>>]}
    \cup {[raised |-> FALSE, snapshots |-> <<sn>>] : sn \in Snapshots(platform)}

----------------------------------------------------------------------------
(* The order manager driven by a strategy and the driver *)

\* the sides callers pass: Dome format for Polymarket, YES / NO for Kalshi
OrderSides(platform) ==
    IF platform = "polymarket" THEN {"BUY", "SELL"} ELSE {"YES", "NO"}

\* (order_type, limit_price, expiration_time_seconds, client_order_id) of a request
OrderKinds ==
    {<<"MARKET", None, None, None>>,
     <<"FOK", Some(500), None, None>>,
     <<"GTC", Some(500), None, None>>,
     <<"GTD", Some(500), Some(1), Some("c1")>>,
     <<"GTD", Some(500), Some(0), None>>,
     <<"FOK", Some(1500), None, None>>,
     <<"GTD", Some(500), None, None>>,
     <<"LIMIT", Some(500), None, None>>,
     <<"LIMIT", None, None, None>>,
     <<"GTC", None, None, None>>,
     <<"IOC", Some(500), None, None>>}

\* history record of one order-manager call: the order created or cancelled
\* (0 if none) and the ledger calls it made
ManagerCall(op, raised, order, calls) ==
    [op |-> op, raised |-> raised, order |-> order, calls |-> calls]

Init ==
    /\ current_time = StartTime
    /\ initial_cash \in InitialCashChoices
    /\ portfolio = NewPortfolio(initial_cash, TRUE)
    /\ orders = <<>>
    /\ pending_orders = <<>>
    /\ order_counter = 0
    /\ orderbook_cache = EmptyCache
    /\ platform_of_api = "polymarket"
    /\ last_call = NoCall
    /\ ncalls = 0
    /\ driver = IdleDriver

\* the same engine behind the Kalshi API
InitKalshi ==
    /\ current_time = StartTime
    /\ initial_cash \in InitialCashChoices
    /\ portfolio = NewPortfolio(initial_cash, TRUE)
    /\ orders = <<>>
    /\ pending_orders = <<>>
    /\ order_counter = 0
    /\ orderbook_cache = EmptyCache
    /\ platform_of_api = "kalshi"
    /\ last_call = NoCall
    /\ ncalls = 0
    /\ driver = IdleDriver

\* OrderManager.create_order
CreateOrder ==
    /\ ncalls < MaxOrders
    /\ ncalls' = ncalls + 1
    /\ \E kind \in OrderKinds, token_id \in OrderTokens(platform_of_api),
          size \in OrderSizes,
          side \in OrderSides(platform_of_api), market_type \in OrderMarketTypes :
       \E response \in IF CacheKey(token_id, current_time) \in DOMAIN orderbook_cache
                       THEN {[raised |-> TRUE, snapshots |-> <<>>]}  \* not consulted
                       ELSE Responses(platform_of_api) :
        LET order_type == kind[1]
            limit_price == kind[2]
            expiration == kind[3]
            client_order_id == kind[4]
            platform == platform_of_api
            counter == IF IsNone(client_order_id) THEN order_counter + 1 ELSE order_counter
            order_id == IF IsNone(client_order_id)
                        THEN generate_order_id(current_time, counter)
                        ELSE Val(client_order_id)
        IN  /\ order_counter' = counter
            /\ IF create_order_raises(order_type, expiration)
               THEN /\ last_call' = ManagerCall("create_order", TRUE, 0, <<>>)
                    /\ UNCHANGED <<portfolio, orders, pending_orders, orderbook_cache>>
               ELSE LET order == SimulatedOrder(order_id, token_id, side, size, limit_price,
                                     order_type, current_time, expiration, client_order_id,
                                     platform, market_type)
                        at == match_time(order, current_time)
                        g == get_historical_orderbook(orderbook_cache, platform_of_api,
                                                      token_id, at, response)
                        r == try_fill_order(order, platform, g.ob, portfolio, current_time)
                        rests == rests_on_book(r.order, order_type, limit_price)
                        result == [r.order EXCEPT !.was_pending = rests]
                    IN  /\ orders' = Append(orders, result)
                        /\ pending_orders' = IF rests
                                             THEN Append(pending_orders, Len(orders) + 1)
                                             ELSE pending_orders
                        /\ portfolio' = r.pf
                        /\ orderbook_cache' = g.cache
                        /\ last_call' = ManagerCall("create_order", FALSE, Len(orders) + 1,
                                            r.calls)
    /\ UNCHANGED <<current_time, initial_cash, platform_of_api, driver>>

\* OrderManager.process_pending_orders(platform)
ProcessPendingOrders ==
    /\ \E platform \in {"polymarket", platform_of_api} :
        \E st \in process_loop(pending_orders, 1,
                      [orders |-> orders, pf |-> portfolio, cache |-> orderbook_cache,
                       remaining |-> <<>>, calls |-> <<>>],
                      platform, platform_of_api, current_time,
                      Responses(platform_of_api)) :
            /\ orders' = st.orders
            /\ pending_orders' = st.remaining
            /\ portfolio' = st.pf
            /\ orderbook_cache' = st.cache
            /\ last_call' = ManagerCall("process_pending_orders", FALSE, 0, st.calls)
    /\ UNCHANGED <<current_time, initial_cash, order_counter, platform_of_api, ncalls,
                   driver>>

\* the order ids a strategy may try to cancel
KnownOrderIds == {orders[i].order_id : i \in 1..Len(orders)} \cup {"unknown"}

\* OrderManager.cancel_order(order_id)
CancelOrder ==
    /\ \E order_id \in KnownOrderIds :
        LET i == find_order(pending_orders, orders, order_id, 1)
        IN  IF i = 0
            THEN /\ last_call' = ManagerCall("cancel_order", FALSE, 0, <<>>)
                                   @@ [order_id |-> order_id]
                 /\ UNCHANGED <<orders, pending_orders>>
            ELSE /\ orders' = [orders EXCEPT ![pending_orders[i]].status = "cancelled"]
                 /\ pending_orders' = Pop(pending_orders, i)
                 /\ last_call' = ManagerCall("cancel_order", FALSE, pending_orders[i], <<>>)
                                   @@ [order_id |-> order_id]
    /\ UNCHANGED <<current_time, initial_cash, portfolio, order_counter, orderbook_cache,
                   platform_of_api, ncalls, driver>>

\* SimulationClock.advance_by(step), as the driver calls it
AdvanceBy ==
    /\ current_time + Step <= MaxTime
    /\ current_time' = current_time + Step
    /\ last_call' = ManagerCall("advance_by", FALSE, 0, <<>>)
    /\ UNCHANGED <<initial_cash, portfolio, orders, pending_orders, order_counter,
                   orderbook_cache, platform_of_api, ncalls, driver>>

Next == CreateOrder \/ ProcessPendingOrders \/ CancelOrder \/ AdvanceBy

Spec == Init /\ [][Next]_vars

SpecKalshi == InitKalshi /\ [][Next]_vars

----------------------------------------------------------------------------
(* The driver: DomeBacktestClient.run(strategy, get_prices) *)

MaxRuns == 2
EndTime == MaxTime           \* config end_time
MarkPrices == {600}          \* the price the get_prices callback may report

\* the dicts get_prices may return for the instruments held: no price at all, or
\* a price for each
PriceMaps(pf) == {EmptyPositions} \cup [DOMAIN pf.positions -> MarkPrices]

RECURSIVE PositionsValue(_, _, _)
PositionsValue(positions, prices, toks) ==
    IF toks = {} THEN 0
    ELSE LET t == CHOOSE x \in toks : TRUE
         IN  Value(positions[t], IF t \in DOMAIN prices THEN prices[t] ELSE 0)
             + PositionsValue(positions, prices, toks \ {t})

\* Portfolio.get_value(prices)
get_value(pf, prices) ==
    pf.cash + PositionsValue(pf.positions, prices, DOMAIN pf.positions)

BacktestResult(cash, final_value, equity_curve, trades) ==
    [initial_cash |-> cash, final_value |-> final_value,
     equity_curve |-> equity_curve, trades |-> trades]

\* mutant: the run keeps the portfolio and the order manager of the run before
run_reset_InPlace(old, cash) == old

\* the components run() constructs before its loop, given the ones of the run
\* before: a new Portfolio, and new platform APIs whose order manager and
\* orderbook simulator are created empty on first use
run_reset(old, cash) ==
    [portfolio |-> NewPortfolio(cash, TRUE), orders |-> <<>>, pending_orders |-> <<>>,
     order_counter |-> 0, orderbook_cache |-> EmptyCache]

\* the client as constructed, before any run
InitRun ==
    /\ current_time = StartTime
    /\ initial_cash \in InitialCashChoices
    /\ portfolio = NewPortfolio(initial_cash, TRUE)
    /\ orders = <<>>
    /\ pending_orders = <<>>
    /\ order_counter = 0
    /\ orderbook_cache = EmptyCache
    /\ platform_of_api = "polymarket"
    /\ last_call = NoCall
    /\ ncalls = 0
    /\ driver = IdleDriver

\* run(): the reset before the loop, up to the first strategy callback
RunBegin ==
    /\ driver.pc \in {"idle", "returned", "raised"}
    /\ driver.run < MaxRuns
    /\ StartTime <= EndTime
    /\ LET new == run_reset([portfolio |-> portfolio, orders |-> orders,
                             pending_orders |-> pending_orders,
                             order_counter |-> order_counter,
                             orderbook_cache |-> orderbook_cache], initial_cash)
       IN  /\ portfolio' = new.portfolio
           /\ orders' = new.orders
           /\ pending_orders' = new.pending_orders
           /\ order_counter' = new.order_counter
           /\ orderbook_cache' = new.orderbook_cache
    /\ current_time' = StartTime
    /\ driver' = [driver EXCEPT !.pc = "strategy", !.run = @ + 1, !.equity_curve = <<>>,
                                !.invoked = <<StartTime>>]
    /\ last_call' = ManagerCall("run", FALSE, 0, <<>>)
    /\ UNCHANGED <<initial_cash, platform_of_api, ncalls>>

\* a call the strategy callback makes during its tick
StrategyCall ==
    /\ driver.pc = "strategy"
    /\ (CreateOrder \/ CancelOrder)

\* the strategy callback raises: run() has no handler, the exception leaves it
StrategyRaises ==
    /\ driver.pc = "strategy"
    /\ driver' = [driver EXCEPT !.pc = "raised"]
    /\ last_call' = ManagerCall("strategy", TRUE, 0, <<>>)
    /\ UNCHANGED <<current_time, initial_cash, portfolio, orderVars, ncalls>>

\* mutant: the clock is advanced before the equity point is recorded
TickEnd_RecordsAfterAdvance ==
    /\ driver.pc = "strategy"
    /\ \E prices \in PriceMaps(portfolio), final_prices \in PriceMaps(portfolio) :
        LET curve == Append(driver.equity_curve,
                            <<current_time + Step, get_value(portfolio, prices)>>)
        IN  IF current_time + Step <= EndTime
            THEN driver' = [driver EXCEPT !.equity_curve = curve,
                                          !.invoked = Append(@, current_time + Step)]
            ELSE driver' = [driver EXCEPT
                      !.equity_curve = curve,
                      !.pc = "returned",
                      !.results = Append(@, BacktestResult(initial_cash,
                                      get_value(portfolio, final_prices), curve,
                                      portfolio.trades))]
    /\ current_time' = current_time + Step
    /\ last_call' = ManagerCall("tick", FALSE, 0, <<>>)
    /\ UNCHANGED <<initial_cash, portfolio, orderVars, ncalls>>

\* the strategy callback returns: the rest of the loop body (equity point, clock
\* advance) and, when the loop ends, the final valuation and the result
TickEnd ==
    /\ driver.pc = "strategy"
    /\ \E prices \in PriceMaps(portfolio), final_prices \in PriceMaps(portfolio) :
        LET curve == Append(driver.equity_curve,
                            <<current_time, get_value(portfolio, prices)>>)
        IN  IF current_time + Step <= EndTime
            THEN driver' = [driver EXCEPT !.equity_curve = curve,
                                          !.invoked = Append(@, current_time + Step)]
            ELSE driver' = [driver EXCEPT
                      !.equity_curve = curve,
                      !.pc = "returned",
                      !.results = Append(@, BacktestResult(initial_cash,
                                      get_value(portfolio, final_prices), curve,
                                      portfolio.trades))]
    /\ current_time' = current_time + Step
    /\ last_call' = ManagerCall("tick", FALSE, 0, <<>>)
    /\ UNCHANGED <<initial_cash, portfolio, orderVars, ncalls>>

NextRun == RunBegin \/ StrategyCall \/ StrategyRaises \/ TickEnd

SpecRun == InitRun /\ [][NextRun]_vars

----------------------------------------------------------------------------
(* The run loop under any configuration: run() of a client constructed with *)
(* config start_time, end_time and step, whose strategy trades on the       *)
(* portfolio it is handed.  The driver record carries the configuration and *)
(* a history of the valuations made: valued is the sequence of              *)
(* <<clock time, "equity" or "final">>.                                     *)

LoopStarts == {1, 2, MaxTime + 1}       \* config start_time
LoopEnds == {MaxTime, MaxTime + 1}      \* config end_time
LoopSteps == {1, 2}                     \* config step
LoopQuantities == {1}                   \* what the strategy buys in one call
LoopPrices == {500}

\* DomeBacktestClient(config): the clock is created at start_time
InitLoop ==
    /\ \E st \in LoopStarts, en \in LoopEnds, sp \in LoopSteps :
          /\ current_time = st
          /\ driver = IdleDriver @@ [start_time |-> st, end_time |-> en, step |-> sp,
                                     valued |-> <<>>]
    /\ initial_cash \in InitialCashChoices
    /\ portfolio = NewPortfolio(initial_cash, TRUE)
    /\ orders = <<>>
    /\ pending_orders = <<>>
    /\ order_counter = 0
    /\ orderbook_cache = EmptyCache
    /\ platform_of_api = "polymarket"
    /\ last_call = NoCall
    /\ ncalls = 0

\* mutant: the loop stops one step short of end_time
loop_continues_Strict(now, end_time) == now < end_time

\* the loop condition: while clock.current_time <= end_time
loop_continues(now, end_time) == now <= end_time

\* mutant: the final valuation is booked at the time of the last tick
LoopReturn_AtLastTick(d, pf, now, final_prices) ==
    [d EXCEPT !.pc = "returned",
              !.valued = Append(@, <<IF d.equity_curve = <<>> THEN now
                                     ELSE d.equity_curve[Len(d.equity_curve)][1],
                                     "final">>),
              !.results = Append(@, BacktestResult(initial_cash,
                                       get_value(pf, final_prices),
                                       d.equity_curve, pf.trades))]

\* the final valuation after the loop and the result returned, at clock time now
LoopReturn(d, pf, now, final_prices) ==
    [d EXCEPT !.pc = "returned",
              !.valued = Append(@, <<now, "final">>),
              !.results = Append(@, BacktestResult(initial_cash,
                                       get_value(pf, final_prices),
                                       d.equity_curve, pf.trades))]

\* run(): the reset before the loop, then the first test of the loop condition:
\* the first strategy callback, or with start_time > end_time the final
\* valuation at once
LoopBegin ==
    /\ driver.pc \in {"idle", "returned", "raised"}
    /\ driver.run < MaxRuns
    /\ LET new == run_reset([portfolio |-> portfolio, orders |-> orders,
                             pending_orders |-> pending_orders,
                             order_counter |-> order_counter,
                             orderbook_cache |-> orderbook_cache], initial_cash)
           fresh == [driver EXCEPT !.run = @ + 1, !.equity_curve = <<>>,
                                   !.invoked = <<>>, !.valued = <<>>]
       IN  /\ portfolio' = new.portfolio
           /\ IF loop_continues(driver.start_time, driver.end_time)
              THEN driver' = [fresh EXCEPT !.pc = "strategy",
                                           !.invoked = <<driver.start_time>>]
              ELSE \E final_prices \in PriceMaps(new.portfolio) :
                      driver' = LoopReturn(fresh, new.portfolio, driver.start_time,
                                           final_prices)
    /\ current_time' = driver.start_time
    /\ last_call' = ManagerCall("run", FALSE, 0, <<>>)
    /\ UNCHANGED <<initial_cash, orderVars, ncalls>>

\* the strategy callback buys on the portfolio during its tick
LoopStrategyCall ==
    /\ driver.pc = "strategy"
    /\ ncalls < MaxCalls
    /\ \E quantity \in LoopQuantities, price \in LoopPrices :
          LET r == PortfolioBuy(portfolio, "polymarket", "P1", quantity, price,
                                current_time, "taker", "global")
          IN  /\ portfolio' = r.pf
              /\ last_call' = LedgerCall("buy", "polymarket", "P1", quantity, price,
                                          "taker", "global", r.raised)
    /\ ncalls' = ncalls + 1
    /\ UNCHANGED <<current_time, initial_cash, orderVars, driver>>

\* the strategy callback raises: run() has no handler, the exception leaves it
LoopStrategyRaises ==
    /\ driver.pc = "strategy"
    /\ driver' = [driver EXCEPT !.pc = "raised"]
    /\ last_call' = ManagerCall("strategy", TRUE, 0, <<>>)
    /\ UNCHANGED <<current_time, initial_cash, portfolio, orderVars, ncalls>>

\* the strategy callback returns: the rest of the loop body (equity point, clock
\* advance), the next test of the loop condition and, when the loop ends, the
\* final valuation and the result
LoopTickEnd ==
    /\ driver.pc = "strategy"
    /\ \E prices \in PriceMaps(portfolio), final_prices \in PriceMaps(portfolio) :
        LET recorded == [driver EXCEPT
                           !.equity_curve = Append(@, <<current_time,
                                                       get_value(portfolio, prices)>>),
                           !.valued = Append(@, <<current_time, "equity">>)]
            now == current_time + driver.step
        IN  IF loop_continues(now, driver.end_time)
            THEN driver' = [recorded EXCEPT !.invoked = Append(@, now)]
            ELSE driver' = LoopReturn(recorded, portfolio, now, final_prices)
    /\ current_time' = current_time + driver.step
    /\ last_call' = ManagerCall("tick", FALSE, 0, <<>>)
    /\ UNCHANGED <<initial_cash, portfolio, orderVars, ncalls>>

NextLoop == LoopBegin \/ LoopStrategyCall \/ LoopStrategyRaises \/ LoopTickEnd

SpecLoop == InitLoop /\ [][NextLoop]_vars

\* a strategy callback and a price function that do not raise return: the loop
\* body runs on
SpecLoopLive == SpecLoop /\ WF_vars(LoopTickEnd)

----------------------------------------------------------------------------
(* The emulo ledger driven directly: buy, sell, and the interest accrual of *)
(* its InterestAccrual when it has one                                      *)

EmuloQuantities == {50, 100}
EmuloPrices == {5, 400, 600}          \* 0.005, 0.40, 0.60
EmuloCashChoices == {50 * 10000000}   \* $50
\* min_balance in dollars: the default, and one a caller constructs the accrual with
MinBalances == {50, 250}

\* the InterestAccrual objects a Portfolio may hold: None when interest is off
InterestAccruals ==
    {<<>>} \cup {<<NewInterestAccrual(m, e)>> : m \in MinBalances, e \in BOOLEAN}

InitEmulo ==
    /\ current_time = 0
    /\ initial_cash \in EmuloCashChoices
    /\ \E ef \in BOOLEAN, ia \in InterestAccruals :
          portfolio = NewEmuloPortfolio(initial_cash, ef, ia)
    /\ orders = <<>>
    /\ pending_orders = <<>>
    /\ order_counter = 0
    /\ orderbook_cache = EmptyCache
    /\ platform_of_api = "polymarket"
    /\ last_call = NoCall
    /\ ncalls = 0
    /\ driver = IdleDriver

EmuloBuyCall ==
    /\ ncalls < MaxCalls
    /\ \E token_id \in Tokens, quantity \in EmuloQuantities, price \in EmuloPrices :
       \E prof \in {c \in CallProfiles : c[1] = PlatformOfToken(token_id)} :
          LET r == EmuloBuy(portfolio, prof[1], token_id, quantity, price,
                            current_time, prof[3], prof[2])
          IN  /\ portfolio' = r.pf
              /\ last_call' = LedgerCall("buy", prof[1], token_id, quantity, price,
                                          prof[3], prof[2], r.raised)
    /\ ncalls' = ncalls + 1
    /\ UNCHANGED <<current_time, initial_cash, orderVars, driver>>

EmuloSellCall ==
    /\ ncalls < MaxCalls
    /\ \E token_id \in Tokens, quantity \in EmuloQuantities, price \in EmuloPrices :
       \E prof \in {c \in CallProfiles : c[1] = PlatformOfToken(token_id)} :
          LET r == EmuloSell(portfolio, prof[1], token_id, quantity, price,
                             current_time, prof[3], prof[2])
          IN  /\ portfolio' = r.pf
              /\ last_call' = LedgerCall("sell", prof[1], token_id, quantity, price,
                                          prof[3], prof[2], r.raised)
    /\ ncalls' = ncalls + 1
    /\ UNCHANGED <<current_time, initial_cash, orderVars, driver>>

\* one daily accrual: accrue_interest called with the portfolio's cash and the
\* value of its positions at the day's prices
AccrueInterest ==
    /\ ncalls < MaxCalls
    /\ portfolio.interest_accrual # <<>>
    /\ \E prices \in PriceMaps(portfolio) :
          LET positions_value == PositionsValue(portfolio.positions, prices,
                                                DOMAIN portfolio.positions)
              r == accrue_interest(portfolio.interest_accrual[1], portfolio.cash,
                                   positions_value, current_time)
          IN  /\ portfolio' = [portfolio EXCEPT !.interest_accrual = <<r.ia>>]
              /\ last_call' = [op |-> "accrue_interest", raised |-> FALSE,
                               cash_balance |-> portfolio.cash,
                               positions_value |-> positions_value,
                               returned |-> r.returned]
    /\ ncalls' = ncalls + 1
    /\ UNCHANGED <<current_time, initial_cash, orderVars, driver>>

\* the monthly payout
ApplyMonthlyInterest ==
    /\ ncalls < MaxCalls
    /\ portfolio.interest_accrual # <<>>
    /\ LET r == apply_monthly_interest(portfolio.interest_accrual[1])
       IN  /\ portfolio' = [portfolio EXCEPT !.interest_accrual = <<r.ia>>]
           /\ last_call' = [op |-> "apply_monthly_interest", raised |-> FALSE,
                            returned |-> r.returned]
    /\ ncalls' = ncalls + 1
    /\ UNCHANGED <<current_time, initial_cash, orderVars, driver>>

NextEmulo == EmuloBuyCall \/ EmuloSellCall \/ AccrueInterest \/ ApplyMonthlyInterest

SpecEmulo == InitEmulo /\ [][NextEmulo]_vars

----------------------------------------------------------------------------
(* The Kalshi fee calculator applied to one input: called directly, or by a *)
(* Kalshi buy of a portfolio with fees enabled                              *)

MaxContracts == 10
FeeCounts == (0 .. MaxContracts) \cup {100}
\* prices in [0, 1]: every multiple of 0.05, and 0.005, 0.01, 0.99, 0.995
FeePricesInRange == {50 * i : i \in 0 .. 20} \cup {5, 10, 990, 995}
\* prices outside [0, 1]
FeePricesOutside == {-50, 1050, 1500}
FeePrices == FeePricesInRange \cup FeePricesOutside

InitFees ==
    /\ current_time = 0
    /\ initial_cash = 100 * 10000000
    /\ portfolio = NewPortfolio(initial_cash, TRUE)
    /\ orders = <<>>
    /\ pending_orders = <<>>
    /\ order_counter = 0
    /\ orderbook_cache = EmptyCache
    /\ platform_of_api = "kalshi"
    /\ last_call = NoCall
    /\ ncalls = 0
    /\ driver = IdleDriver

\* calculate_kalshi_fee(contract_count, contract_price) called by itself
KalshiFeeCall ==
    /\ ncalls = 0
    /\ \E contract_count \in FeeCounts, contract_price \in FeePrices :
          last_call' = [op |-> "calculate_kalshi_fee",
                        contract_count |-> contract_count,
                        contract_price |-> contract_price,
                        raised |-> KalshiPriceRejected(contract_price),
                        returned |-> IF KalshiPriceRejected(contract_price) THEN 0
                                     ELSE calculate_kalshi_fee(contract_count,
                                                               contract_price)]
    /\ ncalls' = ncalls + 1
    /\ UNCHANGED <<current_time, initial_cash, portfolio, orderVars, driver>>

\* Portfolio.buy on the Kalshi venue
KalshiBuyCall ==
    /\ ncalls = 0
    /\ \E quantity \in FeeCounts, price \in FeePrices :
          LET r == PortfolioBuy(portfolio, "kalshi", "K1:YES", quantity, price,
                                current_time, "taker", "global")
          IN  /\ portfolio' = r.pf
              /\ last_call' = LedgerCall("buy", "kalshi", "K1:YES", quantity, price,
                                          "taker", "global", r.raised)
    /\ ncalls' = ncalls + 1
    /\ UNCHANGED <<current_time, initial_cash, orderVars, driver>>

NextFees == KalshiFeeCall \/ KalshiBuyCall

SpecFees == InitFees /\ [][NextFees]_vars

----------------------------------------------------------------------------
(* The clock by itself: SimulationClock with its two mutators called with *)
(* any integer argument                                                    *)

MaxClockCalls == 5
ClockStarts == {0, 2}
ClockSeconds == {-1, 0, 1, 2}      \* advance_by(seconds)
ClockTimestamps == {0, 1, 3}       \* advance_to(timestamp)

\* SimulationClock.__init__(start_time)
InitClock ==
    /\ current_time \in ClockStarts
    /\ initial_cash \in InitialCashChoices
    /\ portfolio = NewPortfolio(initial_cash, TRUE)
    /\ orders = <<>>
    /\ pending_orders = <<>>
    /\ order_counter = 0
    /\ orderbook_cache = EmptyCache
    /\ platform_of_api = "polymarket"
    /\ last_call = NoCall
    /\ ncalls = 0
    /\ driver = IdleDriver

\* SimulationClock.advance_to(timestamp)
ClockAdvanceTo ==
    /\ ncalls < MaxClockCalls
    /\ \E timestamp \in ClockTimestamps :
          /\ current_time' = timestamp
          /\ last_call' = [op |-> "advance_to", raised |-> FALSE, arg |-> timestamp]
    /\ ncalls' = ncalls + 1
    /\ UNCHANGED <<initial_cash, portfolio, orderVars, driver>>

\* SimulationClock.advance_by(seconds)
ClockAdvanceBy ==
    /\ ncalls < MaxClockCalls
    /\ \E seconds \in ClockSeconds :
          /\ current_time' = current_time + seconds
          /\ last_call' = [op |-> "advance_by", raised |-> FALSE, arg |-> seconds]
    /\ ncalls' = ncalls + 1
    /\ UNCHANGED <<initial_cash, portfolio, orderVars, driver>>

NextClock == ClockAdvanceTo \/ ClockAdvanceBy

SpecClock == InitClock /\ [][NextClock]_vars

----------------------------------------------------------------------------
(* The two quoting functions of the orderbook simulator applied to one *)
(* orderbook: can_fill_at_price and get_market_price                   *)

\* Polymarket snapshots: the books of the runs, one whose levels come worst
\* first, and one without any level
QuotePolymarketBooks ==
    PolymarketBooks \cup
    {[bids |-> <<<<300, 1>>, <<600, 2>>>>, asks |-> <<<<700, 1>>, <<400, 2>>>>],
     [bids |-> <<>>, asks |-> <<>>]}

\* Kalshi snapshots, likewise (prices in cents)
QuoteKalshiBooks ==
    KalshiBooks \cup
    {[yes |-> <<<<30, 1>>, <<60, 2>>>>, no |-> <<<<20, 1>>, <<70, 2>>>>],
     [yes |-> <<>>, no |-> <<>>]}

\* what get_historical_orderbook may have returned: None or a parsed orderbook
QuoteOrderbooks(platform) ==
    {None} \cup
    (IF platform = "polymarket"
     THEN {Some(parse_polymarket_orderbook([timestamp |-> 1000, bids |-> b.bids,
                                            asks |-> b.asks])) : b \in QuotePolymarketBooks}
     ELSE {Some(parse_kalshi_orderbook([timestamp |-> 1000, yes |-> b.yes,
                                        no |-> b.no])) : b \in QuoteKalshiBooks})

QuoteLimits == {300, 400, 500, 700, 1000}
QuoteSizes == {1, 2, 3, 4}

InitQuote ==
    /\ current_time = StartTime
    /\ initial_cash \in InitialCashChoices
    /\ portfolio = NewPortfolio(initial_cash, TRUE)
    /\ orders = <<>>
    /\ pending_orders = <<>>
    /\ order_counter = 0
    /\ orderbook_cache = EmptyCache
    /\ platform_of_api \in {"polymarket", "kalshi"}
    /\ last_call = NoCall
    /\ ncalls = 0
    /\ driver = IdleDriver

\* can_fill_at_price(orderbook, side, limit_price, size, platform)
CanFillCall ==
    /\ ncalls = 0
    /\ \E orderbook \in QuoteOrderbooks(platform_of_api),
          side \in OrderSides(platform_of_api),
          limit_price \in QuoteLimits, size \in QuoteSizes :
          last_call' = [op |-> "can_fill_at_price", raised |-> FALSE,
                        orderbook |-> orderbook, side |-> side,
                        limit_price |-> limit_price, size |-> size,
                        returned |-> can_fill_at_price(orderbook, side, limit_price,
                                                       size, platform_of_api)]
    /\ ncalls' = ncalls + 1
    /\ UNCHANGED <<current_time, initial_cash, portfolio, orderVars, driver>>

\* get_market_price(orderbook, side, platform)
MarketPriceCall ==
    /\ ncalls = 0
    /\ \E orderbook \in QuoteOrderbooks(platform_of_api),
          side \in OrderSides(platform_of_api) :
          last_call' = [op |-> "get_market_price", raised |-> FALSE,
                        orderbook |-> orderbook, side |-> side,
                        returned |-> get_market_price(orderbook, side, platform_of_api)]
    /\ ncalls' = ncalls + 1
    /\ UNCHANGED <<current_time, initial_cash, portfolio, orderVars, driver>>

NextQuote == CanFillCall \/ MarketPriceCall

SpecQuote == InitQuote /\ [][NextQuote]_vars

----------------------------------------------------------------------------
(* The orderbook cache: get_historical_orderbook called again and again *)

MaxLookups == 3
CacheTokens == {"T1", "T2"}
CacheTimestamps == {1, 2}

\* the get_historical_orderbook calls made so far, oldest first
LookupHistory == IF last_call.op = "none" THEN <<>> ELSE last_call.history

InitCache ==
    /\ current_time = StartTime
    /\ initial_cash \in InitialCashChoices
    /\ portfolio = NewPortfolio(initial_cash, TRUE)
    /\ orders = <<>>
    /\ pending_orders = <<>>
    /\ order_counter = 0
    /\ orderbook_cache = EmptyCache
    /\ platform_of_api \in {"polymarket", "kalshi"}
    /\ last_call = NoCall
    /\ ncalls = 0
    /\ driver = IdleDriver

\* get_historical_orderbook(token_id, timestamp), use_cache left at True
GetHistoricalOrderbook ==
    /\ ncalls < MaxLookups
    /\ \E token_id \in CacheTokens, timestamp \in CacheTimestamps,
          response \in Responses(platform_of_api) :
          LET r == get_historical_orderbook(orderbook_cache, platform_of_api, token_id,
                                            timestamp, response)
              this == [token_id |-> token_id, timestamp |-> timestamp,
                       returned |-> r.ob, fetched |-> r.fetched]
          IN  /\ orderbook_cache' = r.cache
              /\ last_call' = [op |-> "get_historical_orderbook", raised |-> FALSE,
                               token_id |-> token_id, timestamp |-> timestamp,
                               returned |-> r.ob, fetched |-> r.fetched,
                               history |-> Append(LookupHistory, this)]
    /\ ncalls' = ncalls + 1
    /\ UNCHANGED <<current_time, initial_cash, portfolio, orders, pending_orders,
                   order_counter, platform_of_api, driver>>

NextCache == GetHistoricalOrderbook

SpecCache == InitCache /\ [][NextCache]_vars

----------------------------------------------------------------------------
(* Ledger properties *)

RECURSIVE SumQuantity(_, _, _)
SumQuantity(trades, token_id, side) ==
    IF trades = <<>> THEN 0
    ELSE (IF Head(trades).token_id = token_id /\ Head(trades).side = side
          THEN Head(trades).quantity ELSE 0)
         + SumQuantity(Tail(trades), token_id, side)

RECURSIVE SumFees(_)
SumFees(trades) ==
    IF trades = <<>> THEN 0 ELSE Head(trades).fee + SumFees(Tail(trades))

TradedTokens == {portfolio.trades[i].token_id : i \in 1..Len(portfolio.trades)}

\* a step that is one Portfolio.buy / Portfolio.sell call made by the strategy
IsLedgerCallStep == ncalls' = ncalls + 1 /\ last_call'.op \in {"buy", "sell"}

\* C1: cash is >= 0 after every buy / sell call.
C1_CashNonNegative == portfolio.cash >= 0

\* C2: a buy with qty*price + fee > cash and a sell with qty > held quantity are
\* rejected, and the rejected call leaves cash, positions, total_fees_paid and
\* the trade log (the whole portfolio) as they were.
C2_RejectionAtomic ==
    [][IsLedgerCallStep =>
        LET c == last_call'
            f == FeeFor(portfolio, c.platform, c.quantity, c.price,
                        c.order_type, c.market_type)
        IN  /\ (c.op = "buy" /\ Value(c.quantity, c.price) + f.fee > portfolio.cash)
                   => c.raised
            /\ (c.op = "sell" /\ c.quantity > Held(portfolio.positions, c.token_id))
                   => c.raised
            /\ c.raised => portfolio' = portfolio]_vars

\* a sell was rejected after an earlier buy had succeeded, and a buy was rejected
C2_Witness ==
    /\ last_call.op = "sell" /\ last_call.raised
    /\ Len(portfolio.trades) = 1 /\ ncalls = 2

\* C3: for every instrument the held quantity is the sum of its successful buys
\* minus the sum of its successful sells, and is never negative.
C3_PositionConservation ==
    \A t \in TradedTokens \cup DOMAIN portfolio.positions :
        /\ Held(portfolio.positions, t)
             = SumQuantity(portfolio.trades, t, "buy")
               - SumQuantity(portfolio.trades, t, "sell")
        /\ Held(portfolio.positions, t) >= 0

\* an instrument was bought and then partly sold
C3_Witness ==
    /\ Len(portfolio.trades) = 2
    /\ portfolio.trades[1].side = "buy" /\ portfolio.trades[1].quantity = 2
    /\ portfolio.trades[2].side = "sell" /\ portfolio.trades[2].quantity = 1
    /\ portfolio.trades[2].token_id = portfolio.trades[1].token_id
    /\ Held(portfolio.positions, portfolio.trades[1].token_id) = 1

C10_FeesEqualTradeFees ==
    portfolio.total_fees_paid = SumFees(portfolio.trades)

\* two trades with fees, one of them a sell
C10_Witness ==
    /\ Len(portfolio.trades) = 2
    /\ portfolio.trades[1].fee > 0
    /\ portfolio.trades[2].side = "sell" /\ portfolio.trades[2].fee > 0

----------------------------------------------------------------------------
(* Order manager properties *)

Terminal == {"filled", "rejected", "cancelled", "expired"}

\* the orderbook get_historical_orderbook(token_id, timestamp) serves from cache
CachedBook(cache, token_id, timestamp) ==
    IF CacheKey(token_id, timestamp) \in DOMAIN cache
    THEN Some(cache[CacheKey(token_id, timestamp)])
    ELSE None

RECURSIVE SumLevels(_)
SumLevels(levels) ==
    IF levels = <<>> THEN 0 ELSE Head(levels)[2] + SumLevels(Tail(levels))

\* contra-side quantity an order can match in an orderbook: everything on the
\* contra side for an order without limit, the levels at or better than the
\* limit otherwise
ContraLiquidity(orderbook, order) ==
    IF IsNone(orderbook) THEN 0
    ELSE LET ob == Val(orderbook)
             buys == Upper(order.side) \in {"YES", "BUY"}
         IN  IF order.platform = "polymarket"
             THEN IF IsNone(order.limit_price)
                  THEN SumLevels(IF buys THEN ob.asks ELSE ob.bids)
                  ELSE IF buys THEN SumAtOrBelow(ob.asks, Val(order.limit_price))
                       ELSE SumAtOrAbove(ob.bids, Val(order.limit_price))
             ELSE LET levels == IF Upper(order.side) = "YES" THEN ob.no_bids
                                ELSE ob.yes_bids
                  IN  IF IsNone(order.limit_price) THEN SumLevels(levels)
                      ELSE SumConvertedAtOrBelow(levels, Val(order.limit_price))

\* a step that is one create_order call that passed validation
IsCreateStep == Len(orders') = Len(orders) + 1

FilledOrders == {i \in 1..Len(orders) : orders[i].status = "filled"}

\* C4: every orderbook the simulator has returned (each one is a cache entry for
\* the (token, T) it was asked for) comes from a snapshot with timestamp <= T,
\* and the order manager asked only for clock times, so T <= current_time.
C4_NoLookahead ==
    /\ DOMAIN orderbook_cache \subseteq
          {CacheKey(tok, T) : tok \in OrderTokens(platform_of_api),
                              T \in StartTime..current_time}
    /\ \A tok \in OrderTokens(platform_of_api), T \in StartTime..current_time :
          CacheKey(tok, T) \in DOMAIN orderbook_cache =>
              orderbook_cache[CacheKey(tok, T)].snapshot_ts <= 1000 * T

\* at the second tick an older snapshot is served, and the first tick's is cached
C4_Witness ==
    /\ current_time = 2
    /\ \E tok \in OrderTokens(platform_of_api) :
          /\ CacheKey(tok, 1) \in DOMAIN orderbook_cache
          /\ CacheKey(tok, 2) \in DOMAIN orderbook_cache
          /\ orderbook_cache[CacheKey(tok, 2)].snapshot_ts < 2000
    /\ \E i \in 1..Len(orders) : orders[i].status = "filled"

\* a GTC limit order that the liquidity at its creation cannot fill is PENDING
\* and queued after create_order, and the ledger is untouched
C5_RestsAtCreate ==
    IsCreateStep =>
        LET o == orders'[Len(orders')]
            ob == CachedBook(orderbook_cache', o.token_id, current_time)
        IN  (/\ o.order_type = "GTC" /\ ~IsNone(o.limit_price)
             /\ ~can_fill_at_price(ob, o.side, Val(o.limit_price), o.size, o.platform))
            => /\ o.status = "pending"
               /\ pending_orders' = Append(pending_orders, Len(orders'))
               /\ portfolio' = portfolio

\* an order leaves PENDING for FILLED / PARTIALLY_FILLED only in a
\* process_pending_orders call, against liquidity that matches it
C5_FillsOnlyWhenProcessed ==
    \A i \in 1..Len(orders) :
        (orders[i].status = "pending"
            /\ orders'[i].status \in {"filled", "partially_filled"})
        => /\ last_call'.op = "process_pending_orders"
           /\ can_fill_at_price(
                  CachedBook(orderbook_cache', orders[i].token_id, current_time),
                  orders[i].side, Val(orders[i].limit_price), orders[i].size,
                  orders[i].platform)

\* C5: a GTC limit order priced beyond current liquidity is PENDING after
\* create_order, becomes FILLED only in a process_pending_orders call that finds
\* matching liquidity, and has no fill and no trade while it is PENDING (every
\* trade of the ledger belongs to a FILLED order).
C5_GtcRestsUntilProcessed ==
    /\ [](/\ \A i \in 1..Len(orders) :
               orders[i].status = "pending" =>
                   orders[i].filled_size = 0 /\ IsNone(orders[i].fill_price)
          /\ Len(portfolio.trades) = Cardinality(FilledOrders))
    /\ [][C5_RestsAtCreate /\ C5_FillsOnlyWhenProcessed]_vars

\* a GTC order rested at the first tick and was filled by a later
\* process_pending_orders
C5_Witness ==
    /\ last_call.op = "process_pending_orders"
    /\ \E i \in 1..Len(orders) :
          /\ orders[i].order_type = "GTC" /\ orders[i].was_pending
          /\ orders[i].status = "filled"
          /\ orders[i].created_time < current_time
          /\ portfolio.trades[Len(portfolio.trades)].timestamp = current_time

\* C6 as claimed: at create_order a MARKET or FOK order ends FILLED in full when
\* the contra-side liquidity is at least its size (unless the ledger refuses the
\* fill), ends REJECTED with filled_size 0 and an unchanged ledger when the
\* liquidity is smaller, is never filled beyond the liquidity and is never left
\* PENDING or PARTIALLY_FILLED.
C6_MarketFokAllOrNothing ==
    [][IsCreateStep =>
        LET o == orders'[Len(orders')]
            liquidity == ContraLiquidity(
                             CachedBook(orderbook_cache', o.token_id, current_time), o)
            refused == last_call'.calls # <<>> /\ last_call'.calls[1].raised
        IN  o.order_type \in {"MARKET", "FOK"} =>
              /\ o.status \in {"filled", "rejected"}
              /\ (liquidity >= o.size /\ ~refused)
                     => o.status = "filled" /\ o.filled_size = o.size
              /\ liquidity < o.size
                     => /\ o.status = "rejected" /\ o.filled_size = 0
                        /\ portfolio' = portfolio
              /\ o.filled_size <= liquidity]_vars

\* C7: an order with status FILLED, REJECTED, CANCELLED or EXPIRED is not in the
\* pending queue, and no later call changes its status, filled_size or
\* fill_price.
C7_TerminalIsFinal ==
    /\ [](\A k \in 1..Len(pending_orders) :
              orders[pending_orders[k]].status \notin Terminal)
    /\ [][\A i \in 1..Len(orders) :
              orders[i].status \in Terminal =>
                  /\ orders'[i].status = orders[i].status
                  /\ orders'[i].filled_size = orders[i].filled_size
                  /\ orders'[i].fill_price = orders[i].fill_price]_vars

\* with a terminal first order, a later process_pending_orders filled the second
C7_Witness ==
    /\ Len(orders) = 2
    /\ orders[1].status \in {"cancelled", "expired", "rejected"}
    /\ orders[2].status = "filled"
    /\ last_call.op = "process_pending_orders" /\ last_call.calls # <<>>

\* the successful ledger calls of the step's order-manager call
SuccessfulCalls == SelectSeq(last_call'.calls, LAMBDA c : ~c.raised)

\* C8: a fill made by create_order is charged under the taker branch, a fill
\* made by process_pending_orders under the maker branch (the trade's fee is the
\* fee of that branch), and an order's maker flag is the one create_order gave
\* it: set exactly when the order was queued, and never changed afterwards.
C8_MakerTakerClassification ==
    [][/\ IsCreateStep =>
            /\ \A k \in 1..Len(last_call'.calls) :
                   last_call'.calls[k].order_type = "taker"
            /\ orders'[Len(orders')].was_pending
                   = (pending_orders' = Append(pending_orders, Len(orders')))
       /\ last_call'.op = "process_pending_orders" =>
            \A k \in 1..Len(last_call'.calls) : last_call'.calls[k].order_type = "maker"
       /\ last_call'.op \in {"create_order", "process_pending_orders"} =>
            /\ Len(portfolio'.trades) = Len(portfolio.trades) + Len(SuccessfulCalls)
            /\ \A k \in 1..Len(SuccessfulCalls) :
                   LET c == SuccessfulCalls[k]
                   IN  portfolio'.trades[Len(portfolio.trades) + k].fee
                         = FeeFor(portfolio, c.platform, c.quantity, c.price,
                                  c.order_type, c.market_type).fee
       /\ \A i \in 1..Len(orders) : orders'[i].was_pending = orders[i].was_pending]_vars

\* one order was filled as a taker by create_order, another as a maker (with the
\* maker rebate as its fee) by process_pending_orders
C8_Witness ==
    /\ last_call.op = "process_pending_orders"
    /\ Len(last_call.calls) = 1 /\ ~last_call.calls[1].raised
    /\ last_call.calls[1].order_type = "maker"
    /\ Len(portfolio.trades) = 2
    /\ portfolio.trades[1].fee > 0 /\ portfolio.trades[2].fee < 0

\* C11: the trade log starts empty and every step extends it at the end by exactly
\* one Trade per successful buy / sell of the step, in call order, each carrying
\* the call's timestamp (the clock), platform, instrument, side, quantity, price
\* and fee; a rejected call appends none and no existing entry changes, so the
\* length is the number of successful calls.
C11_TradeLogAppendOnly ==
    /\ [](last_call = NoCall => portfolio.trades = <<>>)
    /\ [][/\ Len(portfolio'.trades) = Len(portfolio.trades) + Len(SuccessfulCalls)
          /\ SubSeq(portfolio'.trades, 1, Len(portfolio.trades)) = portfolio.trades
          /\ \A k \in 1..Len(SuccessfulCalls) :
                LET c == SuccessfulCalls[k]
                IN  portfolio'.trades[Len(portfolio.trades) + k]
                      = Trade(current_time, c.platform, c.token_id, c.op, c.quantity,
                              c.price,
                              FeeFor(portfolio, c.platform, c.quantity, c.price,
                                     c.order_type, c.market_type).fee)]_vars

\* two trades made at different ticks, the later one appended after a call of the
\* same step's order-manager call; the log keeps the earlier one first
C11_Witness ==
    /\ Len(portfolio.trades) = 2
    /\ portfolio.trades[1].timestamp < portfolio.trades[2].timestamp
    /\ portfolio.trades[1].side = "buy" /\ portfolio.trades[2].side = "sell"
    /\ Len(last_call.calls) = 1 /\ ~last_call.calls[1].raised

\* the orders the step takes to FILLED or PARTIALLY_FILLED
NewlyFilled ==
    {i \in 1..Len(orders') :
        /\ orders'[i].status \in {"filled", "partially_filled"}
        /\ i <= Len(orders) => orders[i].status \notin {"filled", "partially_filled"}}

\* C12: in every step the successful ledger calls are as many as the orders that
\* become FILLED / PARTIALLY_FILLED, and each such order has a successful buy or
\* sell (a buy for a YES / BUY order, a sell otherwise) on its position key with
\* quantity = filled_size and price = fill_price; a step that fills no order (its
\* orders stay or end PENDING, REJECTED, EXPIRED or CANCELLED) leaves the whole
\* portfolio unchanged.
C12_FillHasOneLedgerCall ==
    [][/\ Len(SuccessfulCalls) = Cardinality(NewlyFilled)
       /\ \A i \in NewlyFilled :
             \E k \in 1..Len(SuccessfulCalls) :
                LET c == SuccessfulCalls[k]
                    o == orders'[i]
                IN  /\ c.quantity = o.filled_size
                    /\ Some(c.price) = o.fill_price
                    /\ c.token_id = position_key(o, c.platform)
                    /\ c.op = IF Lower(o.side) \in {"yes", "buy"} THEN "buy" ELSE "sell"
       /\ NewlyFilled = {} => portfolio' = portfolio]_vars

\* one process_pending_orders call filled one resting order and had the ledger
\* refuse the other
C12_Witness ==
    /\ last_call.op = "process_pending_orders"
    /\ Len(last_call.calls) = 2
    /\ \E k \in 1..2 : last_call.calls[k].raised
    /\ \E k \in 1..2 : ~last_call.calls[k].raised
    /\ \E i \in 1..Len(orders) : orders[i].status = "filled" /\ orders[i].was_pending
    /\ \E i \in 1..Len(orders) : orders[i].status = "rejected"

\* positions in the pending queue of the orders with this order_id
QueuedWithId(order_id) ==
    {k \in 1..Len(pending_orders) : orders[pending_orders[k]].order_id = order_id}

\* C13: cancel_order(id) never touches the portfolio; when a resting order has
\* that id, the first such order is returned, gets status CANCELLED and is the
\* one entry removed from the queue, every other order and queue entry staying
\* as it was; when no queued order has the id, None is returned and nothing
\* changes; and a CANCELLED order is never changed (so never filled) by a later
\* call.
C13_CancelOrder ==
    /\ [][last_call'.op = "cancel_order" =>
            LET queued == QueuedWithId(last_call'.order_id)
            IN  /\ portfolio' = portfolio
                /\ queued = {} =>
                      /\ last_call'.order = 0
                      /\ orders' = orders /\ pending_orders' = pending_orders
                /\ queued # {} =>
                      LET k == CHOOSE x \in queued : \A y \in queued : x <= y
                          i == pending_orders[k]
                      IN  /\ last_call'.order = i
                          /\ orders' = [orders EXCEPT ![i].status = "cancelled"]
                          /\ pending_orders' = SubSeq(pending_orders, 1, k - 1)
                                 \o SubSeq(pending_orders, k + 1, Len(pending_orders))]_vars
    /\ [][\A i \in 1..Len(orders) :
              orders[i].status = "cancelled" => orders'[i] = orders[i]]_vars

\* the second of two resting orders was cancelled; the first is still queued
C13_Witness ==
    /\ last_call.op = "cancel_order" /\ last_call.order = 2
    /\ orders[2].status = "cancelled" /\ orders[1].status = "pending"
    /\ pending_orders = <<1>>

\* the order's expiration_time is earlier than the clock
PastExpiration(order, now) ==
    /\ order.order_type = "GTD"
    /\ ~IsNone(order.expiration_time) /\ Val(order.expiration_time) < now

\* queue positions of the resting orders whose expiration has passed
DueToExpire == {k \in 1..Len(pending_orders) :
                   PastExpiration(orders[pending_orders[k]], current_time)}

QueuedOrders(queue) == {queue[k] : k \in 1..Len(queue)}

\* C14 as claimed: in process_pending_orders every resting GTD order whose
\* expiration_time is earlier than the clock ends EXPIRED with no fill and out of
\* the queue, no ledger call is made for it and, when every resting order is
\* such an order, no orderbook is fetched and the portfolio is unchanged; every
\* other resting order is not expired and is still queued exactly when it is
\* still PENDING.
C14_ExpiryInProcess ==
    [][last_call'.op = "process_pending_orders" =>
        /\ \A k \in 1..Len(pending_orders) :
              LET i == pending_orders[k]
              IN  IF k \in DueToExpire
                  THEN /\ orders'[i].status = "expired"
                       /\ orders'[i].filled_size = 0
                       /\ i \notin QueuedOrders(pending_orders')
                  ELSE /\ orders'[i].status # "expired"
                       /\ orders'[i].status = "pending"
                              <=> i \in QueuedOrders(pending_orders')
        /\ Len(last_call'.calls) <= Len(pending_orders) - Cardinality(DueToExpire)
        /\ Cardinality(DueToExpire) = Len(pending_orders) =>
              orderbook_cache' = orderbook_cache /\ portfolio' = portfolio]_vars

\* C15 as claimed: a create_order call that raises leaves the pending queue, the
\* order-id counter, the orders and the portfolio exactly as before, and a
\* create_order call that does not raise was given an accepted order_type, an
\* expiration when the type is GTD, and a limit price (if any) within [0, 1].
C15_InvalidParametersRaise ==
    [][last_call'.op = "create_order" =>
        /\ last_call'.raised =>
              /\ pending_orders' = pending_orders /\ orders' = orders
              /\ portfolio' = portfolio
              /\ order_counter' = order_counter
        /\ ~last_call'.raised =>
              LET o == orders'[Len(orders')]
              IN  /\ o.order_type \in ValidOrderTypes
                  /\ o.order_type = "GTD" => ~IsNone(o.expiration_time)
                  /\ ~IsNone(o.limit_price) =>
                        Val(o.limit_price) >= 0 /\ Val(o.limit_price) <= 1000]_vars

\* no orderbook is available for the instrument at the clock time once the call
\* has tried to fetch it (an orderbook that was returned is in the cache)
NoOrderbookAfter(token_id) ==
    IsNone(CachedBook(orderbook_cache', token_id, current_time))

C20_RoundTrip ==
    \A token_id \in Tokens, quantity \in Quantities, price \in LedgerPrices :
      \A prof \in {c \in CallProfiles : c[1] = PlatformOfToken(token_id)} :
        LET f == FeeFor(portfolio, prof[1], quantity, price, prof[3], prof[2])
            b == PortfolioBuy(portfolio, prof[1], token_id, quantity, price,
                              current_time, prof[3], prof[2])
            s == PortfolioSell(b.pf, prof[1], token_id, quantity, price,
                               current_time, prof[3], prof[2])
        IN  (~f.raised /\ f.fee = 0 /\ ~b.raised) =>
              /\ ~s.raised
              /\ s.pf.cash = portfolio.cash
              /\ s.pf.positions = portfolio.positions

\* a buy and then a sell of the same quantity at the same price, both without
\* fee, have been made: cash is the initial cash again and nothing is held
C20_Witness ==
    /\ ncalls = 2 /\ last_call.op = "sell" /\ ~last_call.raised
    /\ Len(portfolio.trades) = 2
    /\ portfolio.trades[1].side = "buy" /\ portfolio.trades[2].side = "sell"
    /\ portfolio.trades[1].token_id = portfolio.trades[2].token_id
    /\ portfolio.trades[1].quantity = portfolio.trades[2].quantity
    /\ portfolio.trades[1].price = portfolio.trades[2].price
    /\ portfolio.trades[1].fee = 0 /\ portfolio.trades[2].fee = 0
    /\ portfolio.cash = initial_cash /\ portfolio.positions = EmptyPositions

----------------------------------------------------------------------------
(* Driver properties *)

\* the ticks of a run: start_time, start_time + step, ... up to end_time
NumTicks == (EndTime - StartTime) \div Step + 1

\* C17 as claimed: an error of the strategy callback never ends the run, so that
\* whenever a run has begun and the driver is not inside a strategy callback, the
\* run has returned a result with one equity point per tick and the clock has
\* passed end_time.
C17_StrategyErrorDoesNotAbort ==
    driver.pc \notin {"idle", "strategy"} =>
        /\ driver.pc = "returned"
        /\ current_time > EndTime
        /\ driver.results # <<>>
        /\ Len(driver.results[Len(driver.results)].equity_curve) = NumTicks

\* C18 as claimed: when a tick ends (the equity point is recorded), the resting
\* orders have been drained: no GTC order created at an earlier tick is still
\* queued while the orderbook of this tick has the liquidity to fill it.
C18_TickDrainsRestingOrders ==
    [][last_call'.op = "tick" =>
        \A k \in 1..Len(pending_orders') :
            LET o == orders'[pending_orders'[k]]
            IN  ~(/\ o.order_type = "GTC"
                  /\ o.created_time < current_time
                  /\ can_fill_at_price(
                         CachedBook(orderbook_cache', o.token_id, current_time),
                         o.side, Val(o.limit_price), o.size, o.platform))]_vars

\* C19: a step that begins a run leaves the clock at start_time, the portfolio
\* with cash = initial_cash, no positions, no trades and no fees, the pending
\* queue and the equity curve empty; and no step changes or removes a result
\* that an earlier run returned.
C19_RunStartsFresh ==
    /\ [][driver'.run # driver.run =>
            /\ driver'.run = driver.run + 1
            /\ current_time' = StartTime
            /\ portfolio'.cash = initial_cash
            /\ portfolio'.positions = EmptyPositions
            /\ portfolio'.trades = <<>>
            /\ portfolio'.total_fees_paid = 0
            /\ pending_orders' = <<>>
            /\ driver'.equity_curve = <<>>]_vars
    /\ [][/\ Len(driver'.results) >= Len(driver.results)
          /\ \A r \in 1..Len(driver.results) :
                driver'.results[r] = driver.results[r]]_vars

\* the second run has just begun after a first run that traded and returned its
\* result: the ledger is fresh and the first result still holds its trade
C19_Witness ==
    /\ driver.run = 2 /\ last_call.op = "run"
    /\ Len(driver.results) = 1
    /\ driver.results[1].trades # <<>>
    /\ driver.results[1].final_value # initial_cash
    /\ portfolio.trades = <<>> /\ portfolio.cash = initial_cash

----------------------------------------------------------------------------
(* emulo ledger properties *)

\* the Trade a successful call has just appended
NewTrade == portfolio'.trades[Len(portfolio'.trades)]

\* the scenario of a global-venue buy of 100 at 0.40 followed by a sell of 50 at 0.60
ScenarioTrades ==
    /\ Len(portfolio.trades) = 2
    /\ portfolio.trades[1] = Trade(0, "polymarket", "P1", "buy", 100, 400, 0)
    /\ portfolio.trades[2] = Trade(0, "polymarket", "P1", "sell", 50, 600, 0)

\* what a successful buy or sell step does to cash, fees, the position and its
\* average entry price
C21_StepAccounting ==
    (IsLedgerCallStep /\ last_call'.op \in {"buy", "sell"} /\ ~last_call'.raised) =>
        LET tok == last_call'.token_id
            q == last_call'.quantity
            p == last_call'.price
            held == Held(portfolio.positions, tok)
        IN  /\ Len(portfolio'.trades) = Len(portfolio.trades) + 1
            /\ NewTrade.side = last_call'.op
            /\ NewTrade.quantity = q /\ NewTrade.price = p /\ NewTrade.token_id = tok
            /\ portfolio'.total_fees_paid = portfolio.total_fees_paid + NewTrade.fee
            /\ IF last_call'.op = "buy"
               THEN /\ portfolio'.cash = portfolio.cash - (Value(q, p) + NewTrade.fee)
                    /\ Held(portfolio'.positions, tok) = held + q
                    /\ tok \in DOMAIN portfolio'.position_details
                    /\ portfolio'.position_details[tok].quantity = held + q
               ELSE /\ portfolio'.cash = portfolio.cash + (Value(q, p) - NewTrade.fee)
                    /\ Held(portfolio'.positions, tok) = held - q
                    /\ IF held - q > 0
                       THEN /\ tok \in DOMAIN portfolio'.position_details
                            /\ portfolio'.position_details[tok].quantity = held - q
                            /\ portfolio'.position_details[tok].avg_price
                                 = portfolio.position_details[tok].avg_price
                       ELSE tok \notin DOMAIN portfolio'.position_details

\* C21: a successful buy debits cash by exactly quantity * price + fee, adds the
\* fee to total_fees_paid and adds the quantity to the position; a successful
\* sell credits cash by exactly quantity * price - fee and subtracts the quantity
\* from the position, whose average entry price stays what it was.  In the
\* scenario (zero-fee venue, buy 100 at 0.40, then sell 50 at 0.60) cash ends
\* 40 lower and then 30 higher than it started, the position is 50 at an average
\* of 0.40 and the trade log has 2 entries.
C21_BuySellAccounting ==
    /\ [](ScenarioTrades =>
            /\ portfolio.cash = initial_cash - 400000000 + 300000000
            /\ Held(portfolio.positions, "P1") = 50
            /\ portfolio.position_details["P1"].quantity = 50
            /\ portfolio.position_details["P1"].avg_price = <<400, 1>>)
    /\ [][C21_StepAccounting]_vars

\* the scenario has been played: two trades, 50 left at an average of 0.40
C21_Witness ==
    /\ ScenarioTrades
    /\ ncalls = 2 /\ last_call.op = "sell" /\ ~last_call.raised
    /\ portfolio.position_details["P1"].quantity = 50
    /\ portfolio.position_details["P1"].avg_price = <<400, 1>>

----------------------------------------------------------------------------
(* Fee properties *)

\* 0.07 * C * P * (1 - P) rounded up to the cent, in money units
ExactCeilFee(contract_count, contract_price) ==
    CeilDiv(7 * contract_count * contract_price * (1000 - contract_price), 1000000) * 100000

Abs(x) == IF x < 0 THEN -x ELSE x

\* C22: for every contract count C >= 0 and price P in [0, 1] the fee returned
\* by calculate_kalshi_fee(C, P) is the smallest whole number of cents that is
\* >= 0.07 * C * P * (1 - P), and a Kalshi buy with fees enabled debits cash by
\* quantity * price plus that fee (10 contracts at 0.50: fee 0.18, debit 5.18).
C22_KalshiFeeIsExactCeil ==
    /\ (last_call.op = "calculate_kalshi_fee" /\ ~last_call.raised) =>
          last_call.returned = ExactCeilFee(last_call.contract_count,
                                            last_call.contract_price)
    /\ (last_call.op = "buy" /\ ~last_call.raised) =>
          portfolio.cash = initial_cash
                           - (Value(last_call.quantity, last_call.price)
                              + ExactCeilFee(last_call.quantity, last_call.price))

\* the parts of C22 the code keeps: the fee is a whole number of cents, never
\* below 0.07 * C * P * (1 - P) and at most one cent above its round-up; the
\* example of 10 contracts at 0.50 gives 0.18 and a debit of 5.18
C22_Example ==
    /\ (last_call.op = "calculate_kalshi_fee" /\ ~last_call.raised
        /\ last_call.contract_count = 10 /\ last_call.contract_price = 500) =>
          last_call.returned = 1800000
    /\ (last_call.op = "buy" /\ ~last_call.raised
        /\ last_call.quantity = 10 /\ last_call.price = 500) =>
          portfolio.cash = initial_cash - 51800000

KalshiOrderToFill(side, size) ==
    SimulatedOrder("order", "K1", side, size, None, "MARKET", current_time, None, None,
                   "kalshi", "global")

\* a direct Kalshi buy or sell at a price outside [0, 1] raises and changes nothing
C24_LedgerRejects ==
    (IsLedgerCallStep /\ last_call'.platform = "kalshi"
     /\ KalshiPriceRejected(last_call'.price)) =>
        /\ last_call'.raised
        /\ portfolio' = portfolio

\* an order filled by the order manager at such a price is not FILLED and leaves
\* the portfolio as it was
C24_OrderNeverFilled ==
    \A side \in OrderSides("kalshi"), size \in OrderSizes :
      \A fill_price \in {p \in LedgerPrices : KalshiPriceRejected(p)} :
        LET r == execute_fill(KalshiOrderToFill(side, size), size, fill_price, "kalshi",
                              portfolio, current_time)
        IN  r.order.status # "filled" /\ r.pf = portfolio

\* C24: a Kalshi buy or sell whose price lies outside [0, 1] is rejected with an
\* error and leaves cash, positions, total_fees_paid and the trade log unchanged;
\* issued through the order manager, such an order never reaches FILLED.
C24_KalshiPriceOutOfRangeRejected ==
    /\ []C24_OrderNeverFilled
    /\ [][C24_LedgerRejects]_vars

----------------------------------------------------------------------------
(* Clock properties *)

\* C25: the simulated clock is monotonic non-decreasing: over any sequence of
\* advance_by and advance_to calls current_time never becomes smaller than a
\* value it held before; advance_by(d) adds exactly d, advance_to(t) sets it to
\* t, and nothing else changes it.
C25_ClockMonotonic ==
    [][/\ current_time' >= current_time
       /\ current_time' # current_time => last_call'.op \in {"advance_by", "advance_to"}
       /\ (ncalls' # ncalls /\ last_call'.op = "advance_by") =>
              current_time' = current_time + last_call'.arg
       /\ (ncalls' # ncalls /\ last_call'.op = "advance_to") =>
              current_time' = last_call'.arg]_vars

----------------------------------------------------------------------------
(* Quoting properties *)

\* the levels an order of this side trades against, as <<price for the taker,
\* quantity>>: asks for a Polymarket buy, bids for a Polymarket sell, NO bids
\* at 1 - no_price for Kalshi YES, YES bids at 1 - yes_price for Kalshi NO
RECURSIVE ConvertedLevels(_)
ConvertedLevels(levels) ==
    IF levels = <<>> THEN <<>>
    ELSE <<<<1000 - Head(levels)[1], Head(levels)[2]>>>> \o ConvertedLevels(Tail(levels))

ContraLevels(ob, side, platform) ==
    IF platform = "polymarket"
    THEN IF side = "BUY" THEN ob.asks ELSE ob.bids
    ELSE IF side = "YES" THEN ConvertedLevels(ob.no_bids)
         ELSE ConvertedLevels(ob.yes_bids)

\* whether the taker buys (pays at most the limit) or sells (gets at least it)
TakerBuys(side, platform) == platform = "kalshi" \/ side = "BUY"

\* quantity at prices at or better than the limit
QuantityAtOrBetter(ob, side, limit_price, platform) ==
    SumLevels(SelectSeq(ContraLevels(ob, side, platform),
                        LAMBDA l : IF TakerBuys(side, platform)
                                   THEN l[1] <= limit_price
                                   ELSE l[1] >= limit_price))

\* C26: can_fill_at_price returns true exactly when the summed contra-side
\* quantity at prices at or better than the limit is >= the requested size
\* (Polymarket buy: asks <= limit; Polymarket sell: bids >= limit; Kalshi YES:
\* NO bids with 1 - no_price <= limit; Kalshi NO: YES bids with 1 - yes_price
\* <= limit); a missing or empty orderbook gives false; for a buy the answer
\* is monotone: a higher limit or a smaller size never turns true into false.
C26_CanFill ==
    (last_call.op = "can_fill_at_price") =>
        LET ob == last_call.orderbook
            side == last_call.side
        IN  /\ IsNone(ob) => ~last_call.returned
            /\ ~IsNone(ob) =>
                 /\ last_call.returned =
                      (QuantityAtOrBetter(Val(ob), side, last_call.limit_price,
                                          platform_of_api) >= last_call.size)
                 /\ ContraLevels(Val(ob), side, platform_of_api) = <<>> =>
                      ~last_call.returned
            /\ (last_call.returned /\ TakerBuys(side, platform_of_api)) =>
                 \A limit2 \in QuoteLimits, size2 \in QuoteSizes :
                    (limit2 >= last_call.limit_price /\ size2 <= last_call.size) =>
                        can_fill_at_price(ob, side, limit2, size2, platform_of_api)

\* a Kalshi YES buy that the NO bids at or under the limit can fill, while a
\* lower limit could not
C26_Witness ==
    /\ last_call.op = "can_fill_at_price" /\ last_call.returned
    /\ platform_of_api = "kalshi" /\ last_call.side = "YES"
    /\ last_call.size = 2 /\ last_call.limit_price = 500
    /\ ~can_fill_at_price(last_call.orderbook, "YES", 400, 2, "kalshi")

\* the lowest (buy) or highest (sell) price among levels
RECURSIVE BestOf(_, _)
BestOf(levels, buys) ==
    IF Len(levels) = 1 THEN Head(levels)[1]
    ELSE LET rest == BestOf(Tail(levels), buys)
             p == Head(levels)[1]
         IN  IF buys THEN (IF p < rest THEN p ELSE rest)
             ELSE (IF p > rest THEN p ELSE rest)

\* C27: for every orderbook snapshot get_market_price returns the best available
\* opposing price: for a buy the lowest price at which contra-side liquidity
\* exists (Polymarket: the minimum ask; Kalshi YES: 1 minus the highest NO bid;
\* Kalshi NO: 1 minus the highest YES bid), for a Polymarket sell the highest
\* bid, and None when the contra side has no liquidity or no orderbook exists.
C27_BestPrice ==
    (last_call.op = "get_market_price") =>
        LET ob == last_call.orderbook
            side == last_call.side
        IN  IF IsNone(ob) THEN IsNone(last_call.returned)
            ELSE LET levels == ContraLevels(Val(ob), side, platform_of_api)
                 IN  IF levels = <<>> THEN IsNone(last_call.returned)
                     ELSE last_call.returned =
                            Some(BestOf(levels, TakerBuys(side, platform_of_api)))

----------------------------------------------------------------------------
(* Cache properties *)

SameLookup(a, b) == a.token_id = b.token_id /\ a.timestamp = b.timestamp

\* C28: with caching on, after a get_historical_orderbook(token, T) call has
\* returned a snapshot, every later call with the same (token, T) returns that
\* same snapshot without a collaborator fetch; and a call answered without a
\* fetch returns what an earlier call with the same token and the same T
\* returned, never an entry stored for another token or another T.
C28_OrderbookCache ==
    LET h == LookupHistory
    IN  /\ \A i, j \in 1 .. Len(h) :
              (i < j /\ SameLookup(h[i], h[j]) /\ ~IsNone(h[i].returned)) =>
                  /\ h[j].returned = h[i].returned
                  /\ ~h[j].fetched
        /\ \A j \in 1 .. Len(h) :
              ~h[j].fetched =>
                  \E i \in 1 .. (j - 1) :
                      /\ SameLookup(h[i], h[j])
                      /\ ~IsNone(h[i].returned)
                      /\ h[i].returned = h[j].returned

\* two different snapshots are cached under the two timestamps of one token,
\* and a third call gets the first of them back without a fetch
C28_Witness ==
    LET h == LookupHistory
    IN  /\ Len(h) = 3
        /\ h[1].token_id = "T1" /\ h[1].timestamp = 2
        /\ h[2].token_id = "T1" /\ h[2].timestamp = 1
        /\ h[3].token_id = "T1" /\ h[3].timestamp = 2
        /\ h[1].fetched /\ h[2].fetched /\ ~h[3].fetched
        /\ ~IsNone(h[1].returned) /\ ~IsNone(h[2].returned)
        /\ h[1].returned # h[2].returned
        /\ h[3].returned = h[1].returned

----------------------------------------------------------------------------
(* Interest properties *)

\* the interest one accrual is due: daily_rate * (cash + positions_value) when
\* the accrual is enabled and the balance reaches min_balance (whole dollars),
\* else nothing
InterestDue(ia, cash_balance, positions_value) ==
    IF ia.enabled /\ (cash_balance + positions_value) \div 10000000 >= ia.min_balance
    THEN (cash_balance + positions_value) \div 9125
    ELSE 0

IsAccrualStep == ncalls' = ncalls + 1 /\ last_call'.op = "accrue_interest"

\* the accrued_interest half of C29
C29_Accrued ==
    IsAccrualStep =>
        portfolio'.interest_accrual[1].accrued_interest
          = portfolio.interest_accrual[1].accrued_interest
            + InterestDue(portfolio.interest_accrual[1], last_call'.cash_balance,
                          last_call'.positions_value)

\* the cash half of C29
C29_CashCredited ==
    IsAccrualStep =>
        portfolio'.cash
          = portfolio.cash
            + InterestDue(portfolio.interest_accrual[1], last_call'.cash_balance,
                          last_call'.positions_value)

\* C29: when interest is enabled and cash + positions_value >= minimum_balance,
\* one accrual adds daily_rate * (cash + positions_value) to accrued_interest
\* and credits the same amount to cash the same day; when the balance is below
\* minimum_balance or interest is disabled, accrued_interest and cash are
\* unchanged.
C29_DailyInterest == [][C29_Accrued /\ C29_CashCredited]_vars

\* the half the code keeps, on its own
C29_AccruedOnly == [][C29_Accrued]_vars

----------------------------------------------------------------------------
(* Run loop properties *)

\* the clock value of the k-th tick of a run
TickTime(k) == StartTime + (k - 1) * Step

\* the strategy has been invoked once at each tick begun so far, in tick order,
\* and every tick but the one the driver is still inside (or was inside when
\* the strategy raised) has its one equity point, stamped with the tick's time
C30_OnePerTick ==
    /\ \A k \in 1 .. Len(driver.invoked) : driver.invoked[k] = TickTime(k)
    /\ \A k \in 1 .. Len(driver.equity_curve) :
          /\ driver.equity_curve[k][1] = TickTime(k)
          /\ driver.equity_curve[k][1] = driver.invoked[k]
          /\ driver.equity_curve[k][1] <= EndTime
          /\ k > 1 => driver.equity_curve[k][1] > driver.equity_curve[k - 1][1]
    /\ Len(driver.invoked) = Len(driver.equity_curve)
                             + (IF driver.pc \in {"strategy", "raised"} THEN 1 ELSE 0)
    /\ driver.pc = "strategy" => driver.invoked[Len(driver.invoked)] = current_time
    /\ driver.pc = "returned" =>
          /\ Len(driver.equity_curve) = NumTicks
          /\ driver.results[Len(driver.results)].equity_curve = driver.equity_curve

\* the equity point of a tick is recorded when that tick's strategy call has
\* returned, with the clock value of the tick, and the clock advances after it
C30_PointThenAdvance ==
    last_call'.op = "tick" =>
        /\ driver.pc = "strategy"
        /\ Len(driver'.equity_curve) = Len(driver.equity_curve) + 1
        /\ driver'.equity_curve[Len(driver'.equity_curve)][1] = current_time
        /\ driver.invoked[Len(driver.invoked)] = current_time
        /\ current_time' = current_time + Step
        /\ SubSeq(driver'.equity_curve, 1, Len(driver.equity_curve)) = driver.equity_curve

\* C30: in a run the strategy callback is invoked exactly once per tick and
\* exactly one equity point is recorded per tick, after that tick's strategy
\* call and before the clock advances; the equity-curve timestamps are
\* start_time, start_time + step, start_time + 2 * step, ... in strictly
\* increasing order and all <= end_time.
C30_RunLoop ==
    /\ []C30_OnePerTick
    /\ [][C30_PointThenAdvance]_vars

\* a run has returned after its ticks: as many strategy calls as equity points,
\* the points stamped start_time and start_time + step
C30_Witness ==
    /\ driver.pc = "returned"
    /\ Len(driver.invoked) = NumTicks /\ NumTicks >= 2
    /\ Len(driver.equity_curve) = NumTicks
    /\ driver.equity_curve[1][1] = StartTime
    /\ driver.equity_curve[2][1] = StartTime + Step
    /\ Len(portfolio.trades) > 0

----------------------------------------------------------------------------
(* Order manager properties: expiry, sides and the pending queue *)

\* C31 as claimed: a GTD order is never filled (and so never produces a trade)
\* at a clock time later than its expiration_time, in create_order or in
\* process_pending_orders.
C31_GtdNeverFillsAfterExpiration ==
    [][\A i \in NewlyFilled :
          (orders'[i].order_type = "GTD" /\ ~IsNone(orders'[i].expiration_time))
          => current_time <= Val(orders'[i].expiration_time)]_vars

\* the part the code keeps: a resting GTD order with a non-zero expiration is
\* never filled by process_pending_orders after that expiration
C31_RestingGtdExpires ==
    [][\A i \in NewlyFilled :
          (/\ last_call'.op = "process_pending_orders"
           /\ orders'[i].order_type = "GTD" /\ ~IsNone(orders'[i].expiration_time)
           /\ Val(orders'[i].expiration_time) # 0)
          => current_time <= Val(orders'[i].expiration_time)]_vars

\* what C32 says of the Kalshi order that create_order has just matched against
\* the orderbook (a ledger call was made for it): the call is a buy on the
\* position 'ticker:SIDE', and unless the ledger refuses that buy the order is
\* FILLED, cash is debited and the position grows by the order's size
KalshiOrderIsBought(sides) ==
    IsCreateStep =>
        LET o == orders'[Len(orders')]
        IN  (o.platform = "kalshi" /\ o.side \in sides /\ last_call'.calls # <<>>) =>
              LET c == last_call'.calls[1]
                  key == o.token_id \o ":" \o o.side
                  b == PortfolioBuy(portfolio, "kalshi", key, c.quantity, c.price,
                                    current_time, c.order_type, c.market_type)
              IN  /\ c.op = "buy" /\ c.token_id = key
                  /\ ~b.raised =>
                        /\ o.status = "filled"
                        /\ portfolio'.cash < portfolio.cash
                        /\ Held(portfolio'.positions, key)
                              = Held(portfolio.positions, key) + o.size

\* C32 as claimed: a Kalshi order with side NO that matches YES-side liquidity
\* is applied to the ledger as a buy that debits cash and increases the
\* position 'ticker:NO', a YES order likewise increases 'ticker:YES', and the
\* order ends FILLED.
C32_KalshiSidesAreBought == [][KalshiOrderIsBought({"YES", "NO"})]_vars

\* the half the code keeps: YES orders
C32_YesOrdersAreBought == [][KalshiOrderIsBought({"YES"})]_vars

----------------------------------------------------------------------------
(* Run loop properties under any configuration *)

\* the number of ticks the configuration asks for
ConfigTicks(d) ==
    IF d.start_time <= d.end_time
    THEN (d.end_time - d.start_time) \div d.step + 1
    ELSE 0

\* a returned run has made exactly the ticks of its configuration, the clock
\* has passed end_time, and the result carries one equity point per tick
C33_TicksWhenReturned ==
    driver.pc = "returned" =>
        /\ Len(driver.invoked) = ConfigTicks(driver)
        /\ Len(driver.equity_curve) = ConfigTicks(driver)
        /\ current_time = driver.start_time + ConfigTicks(driver) * driver.step
        /\ current_time > driver.end_time
        /\ driver.results # <<>>
        /\ driver.results[Len(driver.results)].equity_curve = driver.equity_curve

\* C33: with step > 0, a run whose strategy and price function return (the
\* strategy never raises) terminates: once begun it reaches the returned state,
\* where the clock exceeds end_time and exactly floor((end_time - start_time) /
\* step) + 1 ticks were made when start_time <= end_time, and 0 ticks when
\* start_time > end_time.
C33_RunTerminates ==
    /\ []C33_TicksWhenReturned
    /\ ([](driver.pc # "raised")) => ((driver.pc = "strategy") ~> (driver.pc = "returned"))

\* a second run whose step does not divide end_time - start_time has returned
\* after its one tick, with the trade its strategy made
C33_Witness ==
    /\ driver.pc = "returned" /\ driver.run = 2
    /\ driver.step = 2 /\ driver.end_time - driver.start_time = 1
    /\ Len(driver.equity_curve) = 1
    /\ current_time = driver.start_time + 2
    /\ portfolio.trades # <<>>

----------------------------------------------------------------------------
(* Reconciliation of the ledger with its trade log *)

\* what the trades of a log took from cash: net_value of the buys minus
\* net_value of the sells
RECURSIVE NetSpent(_)
NetSpent(trades) ==
    IF trades = <<>> THEN 0
    ELSE (IF Head(trades).side = "buy" THEN Trade_net_value(Head(trades))
          ELSE -Trade_net_value(Head(trades)))
         + NetSpent(Tail(trades))

\* C34: in every reachable state cash equals initial_cash minus the sum of
\* net_value (quantity * price + fee) over the buy trades plus the sum of
\* net_value (quantity * price - fee) over the sell trades of the trade log,
\* and cash changes in no other way: a step that changes cash appends trades.
C34_LedgerReconciles ==
    /\ [](portfolio.cash = initial_cash - NetSpent(portfolio.trades))
    /\ [][portfolio'.cash # portfolio.cash =>
             /\ Len(portfolio'.trades) > Len(portfolio.trades)
             /\ SubSeq(portfolio'.trades, 1, Len(portfolio.trades)) = portfolio.trades]_vars

\* a buy and a sell, both with a fee, are in the log and cash is not the
\* initial cash
C34_Witness ==
    /\ Len(portfolio.trades) = 2
    /\ portfolio.trades[1].side = "buy" /\ portfolio.trades[1].fee > 0
    /\ portfolio.trades[2].side = "sell" /\ portfolio.trades[2].fee > 0
    /\ portfolio.cash # initial_cash
    /\ portfolio.cash = initial_cash - Trade_net_value(portfolio.trades[1])
                                     + Trade_net_value(portfolio.trades[2])

----------------------------------------------------------------------------
(* The pending queue *)

\* C35: after every create_order, process_pending_orders and cancel_order call
\* each order in the pending queue has status PENDING, order_type GTC or GTD, a
\* limit price, filled_size 0 and the maker flag set; it is in the queue exactly
\* once, and the queue keeps the orders that remain in the order they were
\* inserted (orders are numbered as created, so the queue is strictly
\* increasing).
C35_PendingQueue ==
    /\ \A k \in 1..Len(pending_orders) :
          /\ pending_orders[k] \in 1..Len(orders)
          /\ LET o == orders[pending_orders[k]]
             IN  /\ o.status = "pending"
                 /\ o.order_type \in {"GTC", "GTD"}
                 /\ ~IsNone(o.limit_price)
                 /\ o.filled_size = 0
                 /\ o.was_pending
    /\ \A k, l \in 1..Len(pending_orders) :
          k < l => pending_orders[k] < pending_orders[l]

\* process_pending_orders took the first of two resting orders out of the
\* queue (filled or expired) and kept the second, a GTD order
C35_Witness ==
    /\ last_call.op = "process_pending_orders"
    /\ Len(orders) = 2 /\ pending_orders = <<2>>
    /\ orders[1].was_pending /\ orders[1].status \in {"filled", "expired"}
    /\ orders[2].order_type = "GTD"

\* C36: fills are all-or-nothing for every order type: in every reachable state
\* each order has filled_size 0 or equal to its size and no order is
\* PARTIALLY_FILLED, and every ledger call an order-manager call makes is for
\* the full size of an order.
C36_AllOrNothing ==
    /\ [](\A i \in 1..Len(orders) :
             /\ orders[i].filled_size \in {0, orders[i].size}
             /\ orders[i].status # "partially_filled"
             /\ orders[i].status = "filled" <=> orders[i].filled_size = orders[i].size)
    /\ [][last_call'.op \in {"create_order", "process_pending_orders"} =>
             \A k \in 1..Len(last_call'.calls) :
                \E i \in 1..Len(orders') :
                    /\ last_call'.calls[k].quantity = orders'[i].size
                    /\ last_call'.calls[k].token_id
                          = position_key(orders'[i], last_call'.calls[k].platform)
                    /\ orders'[i].status \in {"filled", "rejected"}]_vars

\* an order of size 2 was filled in full by process_pending_orders while a
\* larger book was there, and the other order has no fill at all
C36_Witness ==
    /\ last_call.op = "process_pending_orders" /\ Len(last_call.calls) = 1
    /\ Len(orders) = 2
    /\ \E i \in 1..2 :
          /\ orders[i].size = 2 /\ orders[i].filled_size = 2
          /\ orders[i].status = "filled" /\ orders[i].was_pending
          /\ orders[3 - i].filled_size = 0
          /\ orders[3 - i].status \in {"rejected", "pending", "cancelled", "expired"}

----------------------------------------------------------------------------
(* Liquidity *)

\* no step changes or drops an orderbook the cache holds
CacheEntriesKept ==
    \A key \in DOMAIN orderbook_cache :
        /\ key \in DOMAIN orderbook_cache'
        /\ orderbook_cache'[key] = orderbook_cache[key]

\* the two quoting functions answer after the step as before it, for every
\* (token, time) that had an orderbook before the step
QuotesKept ==
    \A tok \in OrderTokens(platform_of_api), T \in StartTime..MaxTime :
        CacheKey(tok, T) \in DOMAIN orderbook_cache =>
            LET before == CachedBook(orderbook_cache, tok, T)
                after == CachedBook(orderbook_cache', tok, T)
            IN  \A side \in OrderSides(platform_of_api) :
                  /\ get_market_price(after, side, platform_of_api)
                        = get_market_price(before, side, platform_of_api)
                  /\ \A size \in OrderSizes, limit \in {400, 500, 1500} :
                        can_fill_at_price(after, side, limit, size, platform_of_api)
                          = can_fill_at_price(before, side, limit, size, platform_of_api)

\* an order created while the orderbook of its (token, tick) is in the cache is
\* matched against that orderbook as it was fetched, whatever was filled from
\* it before: if the orderbook matches the order, the one ledger call is made,
\* and unless the ledger refuses (cash, held position) the order fills in full
FillsAgainstSameBook ==
    IsCreateStep =>
        LET o == orders'[Len(orders')]
            ob == CachedBook(orderbook_cache, o.token_id, current_time)
            matched == IF o.order_type = "MARKET" \/ IsNone(o.limit_price)
                       THEN ~IsNone(get_market_price(ob, o.side, o.platform))
                       ELSE /\ o.order_type \in {"FOK", "GTC", "GTD"}
                            /\ can_fill_at_price(ob, o.side, Val(o.limit_price), o.size,
                                                 o.platform)
        IN  (~IsNone(ob) /\ matched) =>
              /\ Len(last_call'.calls) = 1
              /\ ~last_call'.calls[1].raised =>
                    o.status = "filled" /\ o.filled_size = o.size

\* C37: a fill never consumes liquidity: no step changes the orderbook cache
\* entries, can_fill_at_price and get_market_price answer for the same (token,
\* time) after a step as before it, and every order of a tick can fill in full
\* against the same resting quantity, limited only by cash and held position.
C37_FillKeepsLiquidity == [][CacheEntriesKept /\ QuotesKept /\ FillsAgainstSameBook]_vars

\* two buy orders of one tick were both filled from an orderbook that holds a
\* single contract on the ask side
C37_Witness ==
    /\ Len(orders) = 2 /\ Len(portfolio.trades) = 2
    /\ orders[1].status = "filled" /\ orders[2].status = "filled"
    /\ orders[1].side = "BUY" /\ orders[2].side = "BUY"
    /\ orders[1].created_time = current_time /\ orders[2].created_time = current_time
    /\ portfolio.trades[1].timestamp = portfolio.trades[2].timestamp
    /\ CacheKey("P1", current_time) \in DOMAIN orderbook_cache
    /\ SumLevels(orderbook_cache[CacheKey("P1", current_time)].asks) = 1
    /\ orders[1].filled_size + orders[2].filled_size = 2

----------------------------------------------------------------------------
(* Ledger refusals of resting orders *)

\* the resting orders that are not expired and that the orderbook of the tick,
\* as the cache holds it after this step's process_pending_orders call,
\* matches, in queue order
MatchedInQueue ==
    SelectSeq(pending_orders,
              LAMBDA i :
                 /\ ~is_expired(orders[i], current_time)
                 /\ can_fill_at_price(
                        CachedBook(orderbook_cache', orders[i].token_id, current_time),
                        orders[i].side, Val(orders[i].limit_price), orders[i].size,
                        orders[i].platform))

\* the orderbook of the tick was in the cache before the step for every
\* resting order
BookCachedBefore ==
    \A k \in 1..Len(pending_orders) :
        CacheKey(orders[pending_orders[k]].token_id, current_time)
            \in DOMAIN orderbook_cache

\* C38: in a process_pending_orders call every resting order that finds
\* matching liquidity gets its ledger call, also after an earlier order of the
\* same call was refused (the orders retried before the orderbook could be
\* fetched found none and stay as they were); an order the ledger refuses
\* becomes REJECTED with filled_size 0 and no fill price and leaves the queue,
\* and a call in which every ledger call is refused leaves the ledger
\* unchanged; a REJECTED order is never changed by a later call and is never in
\* the queue again.
C38_RefusedRestingOrder ==
    /\ [][last_call'.op = "process_pending_orders" =>
            LET without_book == Len(MatchedInQueue) - Len(last_call'.calls)
            IN  /\ without_book >= 0
                /\ BookCachedBefore => without_book = 0
                /\ \A j \in 1..without_book :
                      /\ orders'[MatchedInQueue[j]] = orders[MatchedInQueue[j]]
                      /\ MatchedInQueue[j] \in QueuedOrders(pending_orders')
                /\ \A j \in 1..Len(last_call'.calls) :
                      LET i == MatchedInQueue[without_book + j]
                      IN  /\ last_call'.calls[j].quantity = orders[i].size
                          /\ IF last_call'.calls[j].raised
                             THEN /\ orders'[i].status = "rejected"
                                  /\ orders'[i].filled_size = 0
                                  /\ IsNone(orders'[i].fill_price)
                                  /\ i \notin QueuedOrders(pending_orders')
                             ELSE orders'[i].status = "filled"
                /\ (\A j \in 1..Len(last_call'.calls) : last_call'.calls[j].raised)
                      => portfolio' = portfolio
                /\ Len(portfolio'.trades) = Len(portfolio.trades) + Len(SuccessfulCalls)]_vars
    /\ [][\A i \in 1..Len(orders) :
              orders[i].status = "rejected" =>
                  /\ orders'[i] = orders[i]
                  /\ i \notin QueuedOrders(pending_orders')]_vars

\* process_pending_orders had the ledger refuse the first resting order and
\* then filled the second: the refused order is REJECTED and out of the queue
C38_Witness ==
    /\ last_call.op = "process_pending_orders"
    /\ Len(last_call.calls) = 2
    /\ last_call.calls[1].raised /\ ~last_call.calls[2].raised
    /\ Len(orders) = 2 /\ pending_orders = <<>>
    /\ orders[1].status = "rejected" /\ orders[1].was_pending
    /\ orders[1].filled_size = 0
    /\ orders[2].status = "filled" /\ orders[2].was_pending
    /\ Len(portfolio.trades) = 1

----------------------------------------------------------------------------
(* Order types at create_order *)

\* C39: a create_order call with order_type "LIMIT" and a limit price passes
\* validation and returns the order REJECTED, whatever the orderbook holds,
\* without queueing it, without a ledger call and with the portfolio unchanged;
\* and an order without limit price is handled as a market order whatever its
\* order_type: it makes the ledger call at the market price when the orderbook
\* quotes one (FILLED unless the ledger refuses), it is REJECTED when there is
\* none, and it is never queued.
C39_LimitTypeRejected ==
    [][last_call'.op = "create_order" =>
        /\ ~last_call'.raised <=> IsCreateStep
        /\ IsCreateStep =>
              LET o == orders'[Len(orders')]
                  ob == CachedBook(orderbook_cache', o.token_id, current_time)
                  quote == get_market_price(ob, o.side, o.platform)
              IN  /\ (o.order_type = "LIMIT" /\ ~IsNone(o.limit_price)) =>
                        /\ o.status = "rejected" /\ o.filled_size = 0
                        /\ pending_orders' = pending_orders
                        /\ last_call'.calls = <<>>
                        /\ portfolio' = portfolio
                  /\ IsNone(o.limit_price) =>
                        /\ pending_orders' = pending_orders
                        /\ ~o.was_pending
                        /\ IF IsNone(quote)
                           THEN /\ o.status = "rejected"
                                /\ last_call'.calls = <<>> /\ portfolio' = portfolio
                           ELSE /\ Len(last_call'.calls) = 1
                                /\ last_call'.calls[1].price = Val(quote)
                                /\ last_call'.calls[1].quantity = o.size
                                /\ last_call'.calls[1].order_type = "taker"
                                /\ o.status = IF last_call'.calls[1].raised
                                              THEN "rejected" ELSE "filled"
                                /\ ~last_call'.calls[1].raised =>
                                      o.fill_price = quote]_vars

\* a LIMIT order priced at 0.50 was rejected while the orderbook had asks at
\* 0.40 and 0.50, after a GTC order without limit price was filled at the
\* market price
C39_Witness ==
    /\ Len(orders) = 2 /\ last_call.op = "create_order"
    /\ orders[1].order_type = "GTC" /\ IsNone(orders[1].limit_price)
    /\ orders[1].status = "filled" /\ orders[1].fill_price = Some(400)
    /\ orders[2].order_type = "LIMIT" /\ orders[2].limit_price = Some(500)
    /\ orders[2].side = "BUY" /\ orders[2].status = "rejected"
    /\ CacheKey("P1", current_time) \in DOMAIN orderbook_cache
    /\ Len(orderbook_cache[CacheKey("P1", current_time)].asks) = 3
    /\ pending_orders = <<>> /\ Len(portfolio.trades) = 1

----------------------------------------------------------------------------
(* Valuation times of a run *)

\* C40: in a run every strategy invocation and every equity-curve valuation
\* happens at a clock time in [start_time, end_time], each equity point being
\* valued at its own timestamp; the final valuation is one more valuation call,
\* made after the loop at the first clock value start_time + k * step that is
\* greater than end_time (at start_time when start_time > end_time), so later
\* than the valuation of the last equity point.
C40_FinalValuationAfterLoop ==
    /\ \A k \in 1..Len(driver.invoked) :
          driver.invoked[k] >= driver.start_time /\ driver.invoked[k] <= driver.end_time
    /\ \A k \in 1..Len(driver.equity_curve) :
          /\ driver.valued[k] = <<driver.equity_curve[k][1], "equity">>
          /\ driver.valued[k][1] >= driver.start_time
          /\ driver.valued[k][1] <= driver.end_time
    /\ driver.pc # "returned" => Len(driver.valued) = Len(driver.equity_curve)
    /\ driver.pc = "returned" =>
          LET n == Len(driver.equity_curve)
              final == driver.valued[Len(driver.valued)]
          IN  /\ Len(driver.valued) = n + 1
              /\ final[2] = "final"
              /\ final[1] = current_time
              /\ final[1] = driver.start_time + n * driver.step
              /\ final[1] > driver.end_time
              /\ n > 0 => /\ final[1] - driver.step <= driver.end_time
                          /\ final[1] > driver.valued[n][1]
              /\ n = 0 => final[1] = driver.start_time

\* a run has returned a final_value that is not the value of its last equity
\* point: the position bought during the run was priced in the last tick's
\* valuation and unpriced in the final one, made one step after end_time
C40_Witness ==
    /\ driver.pc = "returned" /\ driver.results # <<>>
    /\ Len(driver.equity_curve) = 2
    /\ portfolio.positions # EmptyPositions
    /\ LET result == driver.results[Len(driver.results)]
       IN  /\ result.final_value # result.equity_curve[2][2]
           /\ result.equity_curve[2][1] <= driver.end_time
    /\ driver.valued[3] = <<driver.end_time + 1, "final">>

====
